---- MODULE Spec2Model ----
(***************************************************************************)
(* Location-estimation engine of the cloud/lightning backend:              *)
(*   stations.py   adaptive station selection (select_stations)            *)
(*   weather.py    aggregation, Wilson interval, blending, dual pipeline   *)
(*   quality.py    report-card grading                                     *)
(*   smhi_client.py  CSV file cache and result cache with a 7-day TTL      *)
(*                                                                         *)
(* Number conventions.  Python floats are held as exact scaled integers:   *)
(*   cloud_coverage_avg      tenths of a percent      (round(x, 1))        *)
(*   lightning_* fields      hundredths of a percent  (round(x, 2))        *)
(*   distance_km             tenths of a km           (round(dist, 1))     *)
(*   raw_weight              multiples of 1/WScale                         *)
(* An optional value (Python None) is the empty tuple, a present value v   *)
(* is the one-element tuple <<v>>.                                         *)
(* Observation rows are held run-length encoded: a row record with n = k   *)
(* stands for k consecutive rows of the parsed CSV with that date and      *)
(* value.  The time and quality columns are never read by the engine.      *)
(***************************************************************************)
EXTENDS Integers, Sequences, FiniteSets, TLC

VARIABLES
    inp,            \* arguments of the pure function under study
    out,            \* its return value
    pc,             \* "ready" before the call, "done" after it
    now,            \* wall clock (time.time()), seconds
    upstream,       \* how the SMHI server answers each CSV request right now
    csv_cache,      \* cache/csv/param{P}_station{S}.csv : None or <<[mtime, text]>>
    result_cache,   \* cache/results/station_{S}_{res}.json : None or <<[mtime, text]>>
    empty_dim,      \* quality._EMPTY_DIM (module-level, shared nested dicts)
    last,           \* observation of the most recent engine call
    returned,       \* payload last returned by get_station_weather_data per (s, r)
    nsteps,         \* number of engine steps taken so far
    status,         \* preloader._status (read and written under preloader._lock)
    thread,         \* the thread under study (pre-loader or request thread), its
                    \* worker pool and its callers
    parsed_csv_cache \* smhi_client._parsed_csv_cache, read and written under
                    \* _parsed_csv_lock: key -> (timestamp, rows)

pureVars == <<inp, out, pc>>
preloadVars == <<status, thread>>
engineVars == <<now, upstream, csv_cache, result_cache, empty_dim, last, returned, nsteps,
                status, thread, parsed_csv_cache>>
vars == <<inp, out, pc, now, upstream, csv_cache, result_cache, empty_dim, last,
          returned, nsteps, status, thread, parsed_csv_cache>>

----------------------------------------------------------------------------
(* Optional values *)

None == <<>>
Some(v) == <<v>>
IsNone(x) == x = <<>>
Val(x) == x[1]

(* Sum of f[i] over a sequence of integers *)
RECURSIVE SumSeq(_)
SumSeq(s) == IF s = <<>> THEN 0 ELSE Head(s) + SumSeq(Tail(s))

\* a list comprehension, evaluated once into a list
List(s) == SubSeq(s, 1, Len(s))

Max2(a, b) == IF a >= b THEN a ELSE b
Min2(a, b) == IF a <= b THEN a ELSE b

(* round(num/den) to the nearest integer, ties to even: Python's round()  *)
(* on a float that holds num/den exactly.  num >= 0, den > 0.             *)
RoundHalfEven(num, den) ==
    LET q == num \div den
        r == num % den
    IN  IF 2 * r < den THEN q
        ELSE IF 2 * r > den THEN q + 1
        ELSE IF q % 2 = 0 THEN q ELSE q + 1

----------------------------------------------------------------------------
(* smhi_client.py constants *)

PARAM_CLOUD_COVERAGE == 16
PARAM_PRESENT_WEATHER == 13

LIGHTNING_CODES ==
    {13, 17, 29, 91, 92, 93, 94, 95, 96, 97, 98, 99, 112, 126,
     190, 191, 192, 193, 194, 195, 196, 213, 217, 292, 293}

MONTH_NAMES ==
    <<"Jan", "Feb", "Mar", "Apr", "May", "Jun",
      "Jul", "Aug", "Sep", "Oct", "Nov", "Dec">>

CACHE_MAX_AGE_SECONDS == 7 * 24 * 60 * 60

VALID_RESOLUTIONS == {"day", "month", "year"}

----------------------------------------------------------------------------
(* weather.py: Wilson score interval                                       *)
(*                                                                         *)
(* With z = 1.96 = 49/25 the interval bounds are                           *)
(*     (N -/+ sqrt(Q)) / (2 * D)     as fractions of 1, where              *)
(*     N = 1250*s + 2401,  D = 625*n + 2401,                               *)
(*     Q = 2450^2 * s*(n-s)/n + 2401^2.                                    *)
(* sqrt(Q) is taken digit by digit in base 16, four digits for the integer *)
(* part and three for the fraction, which stays inside 32-bit integers.    *)

\* One step of the digit-by-digit square root in base 16: bring down the next
\* two hexadecimal digits of the radicand and find the next digit of the root.
SqrtDigit(st, chunk) ==
    LET rem == 256 * st.rem + chunk
        d == CHOOSE x \in 0..15 :
                /\ (32 * st.root + x) * x <= rem
                /\ x < 15 => (32 * st.root + x + 1) * (x + 1) > rem
    IN  [root |-> 16 * st.root + d, rem |-> rem - (32 * st.root + d) * d]

\* the digits of the root for a list of two-digit chunks, most significant first
RECURSIVE SqrtDigits(_, _)
SqrtDigits(st, chunks) ==
    IF chunks = <<>> THEN st
    ELSE SqrtDigits(SqrtDigit(st, Head(chunks)), Tail(chunks))

\* the radicand in base 256: four chunks of the integer part whole and three
\* of the fraction f0 / n
WilsonChunks(whole, f0, n) ==
    <<(whole \div 16777216) % 256,
      (whole \div 65536) % 256,
      (whole \div 256) % 256,
      whole % 256,
      (256 * f0) \div n,
      (256 * ((256 * f0) % n)) \div n,
      (256 * ((256 * ((256 * f0) % n)) % n)) \div n>>

\* floor(sqrt(Q) * 16^3) for Q = 2450^2 * s*(n-s)/n + 2401^2
WilsonRoot(s, n) ==
    LET k == s * (n - s)
    IN  SqrtDigits([root |-> 0, rem |-> 0],
                   WilsonChunks((k \div n) * 6002500 + ((k % n) * 6002500) \div n + 5764801,
                                ((k % n) * 6002500) % n,
                                n)).root

\* floor(10^digits * a / b) by long division, 0 <= a, 0 < b
RECURSIVE LongDiv(_, _, _)
LongDiv(a, b, digits) ==
    IF digits = 0 THEN a \div b
    ELSE (a \div b) * (10 ^ digits) + LongDiv(10 * (a % b), b, digits - 1)

\* round(5000 * a / b): nearest integer of half of 10000*a/b
RoundHalfOf(a, b) == (LongDiv(a, b, 4) + 1) \div 2

\* wilson_interval with the sign of the margin slipped: center + margin is
\* emitted as the lower bound and center - margin as the upper bound
wilson_interval_swapped(successes, total) ==
    IF total = 0 THEN <<None, None>>
    ELSE
        LET scale == 16 ^ 3
            root == WilsonRoot(successes, total)
            n_scaled == (1250 * successes + 2401) * scale
            d_scaled == (625 * total + 2401) * scale
            lower == RoundHalfOf(Max2(0, n_scaled + root), d_scaled)
            upper == Min2(10000, RoundHalfOf(Max2(0, n_scaled - root), d_scaled))
        IN  <<Some(lower), Some(upper)>>

\* _wilson_interval(successes, total): (lower, upper) in hundredths of a percent
wilson_interval(successes, total) ==
    IF total = 0 THEN <<None, None>>
    ELSE
        LET scale == 16 ^ 3
            root == WilsonRoot(successes, total)
            n_scaled == (1250 * successes + 2401) * scale
            d_scaled == (625 * total + 2401) * scale
            lower == RoundHalfOf(Max2(0, n_scaled - root), d_scaled)
            upper == Min2(10000, RoundHalfOf(n_scaled + root, d_scaled))
        IN  <<Some(lower), Some(upper)>>

----------------------------------------------------------------------------
(* weather.py: one aggregated point *)

MIN_CI_OBSERVATIONS == 30

\* len(cloud_values) and sum(cloud_values) of a run-length encoded value list
RECURSIVE RunCount(_)
RunCount(runs) == IF runs = <<>> THEN 0 ELSE Head(runs).n + RunCount(Tail(runs))

RECURSIVE RunSum(_)
RunSum(runs) ==
    IF runs = <<>> THEN 0 ELSE Head(runs).value * Head(runs).n + RunSum(Tail(runs))

\* make_point that never consults has_lightning_data
make_point_ignoring_flag(label, cloud_values, lightning_bucket, has_lightning_data) ==
    LET cloud_avg ==
            IF cloud_values # <<>>
            THEN Some(RoundHalfEven(10 * RunSum(cloud_values), RunCount(cloud_values)))
            ELSE None
        counted == /\ ~IsNone(lightning_bucket)
                   /\ Val(lightning_bucket).total > 0
        total == Val(lightning_bucket).total
        hits == Val(lightning_bucket).lightning
        Point(ci) ==
            [label |-> label,
             cloud_coverage_avg |-> cloud_avg,
             lightning_probability |->
                 IF counted THEN Some(RoundHalfEven(10000 * hits, total)) ELSE None,
             lightning_lower |-> ci[1],
             lightning_upper |-> ci[2],
             obs_count |-> RunCount(cloud_values)]
    IN  Point(IF counted /\ total >= MIN_CI_OBSERVATIONS
              THEN wilson_interval(hits, total)
              ELSE <<None, None>>)

\* make_point with the interval threshold off by one (total > MIN_CI_OBSERVATIONS)
make_point_strict_threshold(label, cloud_values, lightning_bucket, has_lightning_data) ==
    LET cloud_avg ==
            IF cloud_values # <<>>
            THEN Some(RoundHalfEven(10 * RunSum(cloud_values), RunCount(cloud_values)))
            ELSE None
        counted == /\ has_lightning_data
                   /\ ~IsNone(lightning_bucket)
                   /\ Val(lightning_bucket).total > 0
        total == Val(lightning_bucket).total
        hits == Val(lightning_bucket).lightning
        Point(ci) ==
            [label |-> label,
             cloud_coverage_avg |-> cloud_avg,
             lightning_probability |->
                 IF counted THEN Some(RoundHalfEven(10000 * hits, total)) ELSE None,
             lightning_lower |-> ci[1],
             lightning_upper |-> ci[2],
             obs_count |-> RunCount(cloud_values)]
    IN  Point(IF counted /\ total > MIN_CI_OBSERVATIONS
              THEN wilson_interval(hits, total)
              ELSE <<None, None>>)

\* _make_point(label, cloud_values, lightning_bucket, has_lightning_data)
make_point(label, cloud_values, lightning_bucket, has_lightning_data) ==
    LET cloud_avg ==
            IF cloud_values # <<>>
            THEN Some(RoundHalfEven(10 * RunSum(cloud_values), RunCount(cloud_values)))
            ELSE None
        counted == /\ has_lightning_data
                   /\ ~IsNone(lightning_bucket)
                   /\ Val(lightning_bucket).total > 0
        total == Val(lightning_bucket).total
        hits == Val(lightning_bucket).lightning
        Point(ci) ==
            [label |-> label,
             cloud_coverage_avg |-> cloud_avg,
             lightning_probability |->
                 IF counted THEN Some(RoundHalfEven(10000 * hits, total)) ELSE None,
             lightning_lower |-> ci[1],
             lightning_upper |-> ci[2],
             obs_count |-> RunCount(cloud_values)]
    IN  Point(IF counted /\ total >= MIN_CI_OBSERVATIONS
              THEN wilson_interval(hits, total)
              ELSE <<None, None>>)

----------------------------------------------------------------------------
(* weather.py: aggregation per resolution.  A row's date is held as the    *)
(* tuple <<year, month, day>> that row["date"].split("-") and int() yield. *)

\* the key under which a row is filed: dt.month, (dt.month, dt.day) or dt.year
RowKey(resolution, date) ==
    CASE resolution = "month" -> <<date[2]>>
      [] resolution = "day" -> <<date[2], date[3]>>
      [] OTHER -> <<date[1]>>

\* cloud_by_*.get(key, []): the values of the rows filed under key
CloudBucket(cloud_rows, resolution, key) ==
    LET hit == SelectSeq(cloud_rows, LAMBDA row : RowKey(resolution, row.date) = key)
    IN  List([i \in 1..Len(hit) |-> [value |-> hit[i].value, n |-> hit[i].n]])

\* lightning_by_*.get(key): None when no weather row has that key
LightningBucket(weather_rows, resolution, key) ==
    LET hit == SelectSeq(weather_rows, LAMBDA row : RowKey(resolution, row.date) = key)
        struck == SelectSeq(hit, LAMBDA row : row.value \in LIGHTNING_CODES)
    IN  IF hit = <<>> THEN None
        ELSE Some([total |-> SumSeq([i \in 1..Len(hit) |-> hit[i].n]),
                   lightning |-> SumSeq([i \in 1..Len(struck) |-> struck[i].n])])

\* _aggregate_monthly
aggregate_monthly(cloud_rows, weather_rows, has_lightning_data) ==
    List([m \in 1..12 |->
        make_point(MONTH_NAMES[m],
                   CloudBucket(cloud_rows, "month", <<m>>),
                   LightningBucket(weather_rows, "month", <<m>>),
                   has_lightning_data)])

\* month lengths of a common year (calendar.monthrange(2001, m)[1])
DaysInMonthCommonYear(m) ==
    IF m = 2 THEN 28 ELSE IF m \in {4, 6, 9, 11} THEN 30 ELSE 31

\* calendar.monthrange(2000, m)[1]
DaysInMonth2000(m) ==
    IF m = 2 THEN 29 ELSE IF m \in {4, 6, 9, 11} THEN 30 ELSE 31

\* the (m, d) keys in the order the two nested loops of _aggregate_daily visit them
RECURSIVE DayKeysFrom(_)
DayKeysFrom(m) ==
    IF m > 12 THEN <<>>
    ELSE [d \in 1..DaysInMonth2000(m) |-> <<m, d>>] \o DayKeysFrom(m + 1)

DayKeys == DayKeysFrom(1)

\* f"{MONTH_NAMES[m - 1]} {d:02d}"
DayLabel(m, d) ==
    MONTH_NAMES[m] \o " " \o (IF d < 10 THEN "0" ELSE "") \o ToString(d)

\* _aggregate_daily
aggregate_daily(cloud_rows, weather_rows, has_lightning_data) ==
    List([i \in 1..Len(DayKeys) |->
        LET key == DayKeys[i]
        IN  make_point(DayLabel(key[1], key[2]),
                       CloudBucket(cloud_rows, "day", key),
                       LightningBucket(weather_rows, "day", key),
                       has_lightning_data)])

\* sorted(S) for a finite set of integers
RECURSIVE SortedInts(_)
SortedInts(S) ==
    IF S = {} THEN <<>>
    ELSE LET lo == CHOOSE x \in S : \A y \in S : x <= y
         IN  <<lo>> \o SortedInts(S \ {lo})

YearsOf(rows) == {rows[i].date[1] : i \in 1..Len(rows)}

\* _aggregate_yearly
aggregate_yearly(cloud_rows, weather_rows, has_lightning_data) ==
    LET all_years == SortedInts(YearsOf(cloud_rows) \cup YearsOf(weather_rows))
    IN  List([i \in 1..Len(all_years) |->
            make_point(ToString(all_years[i]),
                       CloudBucket(cloud_rows, "year", <<all_years[i]>>),
                       LightningBucket(weather_rows, "year", <<all_years[i]>>),
                       has_lightning_data)])

\* _AGGREGATORS[resolution](cloud_rows, weather_rows, has_lightning_data)
Aggregate(resolution, cloud_rows, weather_rows, has_lightning_data) ==
    IF resolution = "day" THEN aggregate_daily(cloud_rows, weather_rows, has_lightning_data)
    ELSE IF resolution = "month"
    THEN aggregate_monthly(cloud_rows, weather_rows, has_lightning_data)
    ELSE aggregate_yearly(cloud_rows, weather_rows, has_lightning_data)

----------------------------------------------------------------------------
(* stations.py: adaptive station selection *)

MIN_STATIONS == 2

\* WEIGHT_THRESHOLD = 0.02, as a percentage
WEIGHT_THRESHOLD_PCT == 2

\* MIN_DIST_KM = 0.1, in tenths of a km
MIN_DIST_KM == 1

\* Raw weights are exact multiples of 1/WScale: every distance used below
\* (in tenths of a km) divides 420.
WScale == 420 * 420

\* raw_weight = 1.0 / (max(distance_km, MIN_DIST_KM) ** 2)
RawWeight(distance_km) ==
    LET dist == Max2(distance_km, MIN_DIST_KM) IN WScale \div (dist * dist)

\* sum(sd["raw_weight"] for sd in selected)
RECURSIVE TotalRawWeight(_)
TotalRawWeight(selected) ==
    IF selected = <<>> THEN 0
    ELSE Head(selected).raw_weight + TotalRawWeight(Tail(selected))

\* the threshold test with <= in place of <
BelowOrAtThreshold(raw_weight, total_so_far) ==
    100 * raw_weight <= WEIGHT_THRESHOLD_PCT * (total_so_far + raw_weight)

\* raw_weight / (total_so_far + raw_weight) < WEIGHT_THRESHOLD
BelowThreshold(raw_weight, total_so_far) ==
    100 * raw_weight < WEIGHT_THRESHOLD_PCT * (total_so_far + raw_weight)

\* the loop of select_stations from 1-based position i on (enumerate index i - 1)
RECURSIVE SelectLoop(_, _, _)
SelectLoop(candidates, i, selected) ==
    IF i > Len(candidates) THEN selected
    ELSE LET raw_weight == RawWeight(candidates[i].distance_km)
         IN  IF /\ i - 1 >= MIN_STATIONS
                /\ BelowThreshold(raw_weight, TotalRawWeight(selected))
             THEN selected
             ELSE SelectLoop(candidates, i + 1,
                             Append(selected, [station |-> candidates[i],
                                               raw_weight |-> raw_weight]))

select_stations(candidates) == SelectLoop(candidates, 1, <<>>)

----------------------------------------------------------------------------
(* Input spaces of the pure-function specifications *)

MaxCand == 4
MaxCloudVals == 2
MaxTotal == 35
MaxRows == 2

\* distances in tenths of a km; 1.5, 2.0 and 8.4 km put the third station
\* exactly on the 2 % threshold
Distances == {0, 10, 15, 20, 70, 84}

SeqsUpTo(S, k) == UNION {[1..j -> S] : j \in 0..k}

IsSortedByDistance(c) ==
    \A i \in 1..(Len(c) - 1) : c[i].distance_km <= c[i + 1].distance_km

CandidateLists ==
    {c \in {[i \in 1..Len(ds) |-> [id |-> i, distance_km |-> ds[i]]] :
                ds \in SeqsUpTo(Distances, MaxCand)} : IsSortedByDistance(c)}

CloudValueLists ==
    SeqsUpTo({[value |-> 0, n |-> 1], [value |-> 33, n |-> 1], [value |-> 100, n |-> 2]},
             MaxCloudVals)

BucketInputs ==
    {None} \cup {Some(b) : b \in {x \in [total : 0..MaxTotal, lightning : 0..MaxTotal] :
                                      x.lightning <= x.total}}

CloudRowInputs ==
    {[date |-> <<2019, 2, 28>>, value |-> 40, n |-> 1],
     [date |-> <<2020, 2, 29>>, value |-> 100, n |-> 3],
     [date |-> <<2020, 12, 31>>, value |-> 75, n |-> 1]}

WeatherRowInputs ==
    {[date |-> <<2020, 2, 29>>, value |-> 95, n |-> 1],
     [date |-> <<2021, 7, 15>>, value |-> 0, n |-> 30],
     [date |-> <<2019, 2, 28>>, value |-> 17, n |-> 2]}

\* preloader._status as the module defines it; a timestamp is None or <<t>>
StatusInitial ==
    [state |-> "idle", total_stations |-> 0, csv_done |-> 0, agg_done |-> 0,
     started_at |-> None, finished_at |-> None, error |-> None]

\* start_preload has not been called: no pre-loader thread exists
PreloadIdle == status = StatusInitial /\ thread = <<>>

\* The engine is idle in the pure-function specifications, and conversely.
EngineIdle ==
    /\ now = 0 /\ upstream = <<>> /\ csv_cache = <<>> /\ result_cache = <<>>
    /\ empty_dim = <<>> /\ last = <<>> /\ returned = <<>> /\ nsteps = 0 /\ parsed_csv_cache = <<>>
    /\ PreloadIdle

----------------------------------------------------------------------------
(* SpecSelect: select_stations on every distance-sorted candidate list *)

InitSelect ==
    /\ inp \in {[candidates |-> c] : c \in CandidateLists}
    /\ out = <<>>
    /\ pc = "ready"
    /\ EngineIdle

SelectStations ==
    /\ pc = "ready"
    /\ out' = select_stations(inp.candidates)
    /\ pc' = "done"
    /\ UNCHANGED <<inp, engineVars>>

NextSelect == SelectStations

SpecSelect == InitSelect /\ [][NextSelect]_vars

----------------------------------------------------------------------------
(* SpecPoint: _make_point on every bucket *)

InitPoint ==
    /\ inp \in [cloud_values : CloudValueLists,
                lightning_bucket : BucketInputs,
                has_lightning_data : BOOLEAN]
    /\ out = <<>>
    /\ pc = "ready"
    /\ EngineIdle

MakePoint ==
    /\ pc = "ready"
    /\ out' = make_point("test", inp.cloud_values, inp.lightning_bucket,
                         inp.has_lightning_data)
    /\ pc' = "done"
    /\ UNCHANGED <<inp, engineVars>>

NextPoint == MakePoint

SpecPoint == InitPoint /\ [][NextPoint]_vars

----------------------------------------------------------------------------
(* SpecAgg: the three aggregators on every pair of row lists *)

InitAgg ==
    /\ inp \in [cloud_rows : SeqsUpTo(CloudRowInputs, MaxRows),
                weather_rows : SeqsUpTo(WeatherRowInputs, MaxRows),
                has_lightning_data : BOOLEAN,
                resolution : VALID_RESOLUTIONS]
    /\ out = <<>>
    /\ pc = "ready"
    /\ EngineIdle

AggregateMonthly ==
    /\ pc = "ready"
    /\ inp.resolution = "month"
    /\ out' = aggregate_monthly(inp.cloud_rows, inp.weather_rows, inp.has_lightning_data)
    /\ pc' = "done"
    /\ UNCHANGED <<inp, engineVars>>

AggregateDaily ==
    /\ pc = "ready"
    /\ inp.resolution = "day"
    /\ out' = aggregate_daily(inp.cloud_rows, inp.weather_rows, inp.has_lightning_data)
    /\ pc' = "done"
    /\ UNCHANGED <<inp, engineVars>>

AggregateYearly ==
    /\ pc = "ready"
    /\ inp.resolution = "year"
    /\ out' = aggregate_yearly(inp.cloud_rows, inp.weather_rows, inp.has_lightning_data)
    /\ pc' = "done"
    /\ UNCHANGED <<inp, engineVars>>

NextAgg == AggregateMonthly \/ AggregateDaily \/ AggregateYearly

SpecAgg == InitAgg /\ [][NextAgg]_vars

----------------------------------------------------------------------------
(* The upstream server and the two disk caches                             *)
(*                                                                         *)
(* A call runs against a world w = [csv, res, req, agg, ed, ret]: the CSV file      *)
(* cache, the result cache, and two counters of what the call has done so  *)
(* far (upstream requests per (parameter, station), aggregations run).     *)
(* The clock and the upstream's behaviour do not change during a call.     *)

StationIds == {"C1", "S1", "W1"}
Params == {PARAM_CLOUD_COVERAGE, PARAM_PRESENT_WEATHER}
Keys == Params \X StationIds
Resolutions == {"day", "month", "year"}

\* how a request for .../data.csv can end: the body arrives, raise_for_status()
\* raises requests.HTTPError, or requests.get() raises (timeout, no connection)
Outcomes == {"ok", "http_error", "conn_error"}

\* One line of a CSV text: whether it starts with "Datum;Tid", its number of
\* columns, whether its first column is non-empty, whether float() accepts
\* its third column, and the date and value a data row carries.
DataLine(date, value, n) ==
    [header |-> FALSE, cols |-> 4, has_date |-> TRUE, numeric |-> TRUE,
     date |-> date, value |-> value, n |-> n]

\* a data row with an empty value column
BlankValueLine(date) ==
    [header |-> FALSE, cols |-> 4, has_date |-> TRUE, numeric |-> FALSE,
     date |-> date, value |-> 0, n |-> 1]

\* a line of the metadata block, or a stray short line
MetaLine ==
    [header |-> FALSE, cols |-> 2, has_date |-> TRUE, numeric |-> FALSE,
     date |-> <<0, 0, 0>>, value |-> 0, n |-> 1]

\* "Datum;Tid (UTC);Value;Quality"
HeaderLine ==
    [header |-> TRUE, cols |-> 4, has_date |-> TRUE, numeric |-> FALSE,
     date |-> <<0, 0, 0>>, value |-> 0, n |-> 1]

\* the corrected-archive CSV the server holds for each (parameter, station)
UpstreamCsv(param, sid) ==
    LET head == <<MetaLine, HeaderLine>>
    IN  IF param = PARAM_CLOUD_COVERAGE
        THEN CASE sid = "C1" ->
                    head \o <<DataLine(<<2019, 6, 15>>, 50, 2000),
                              DataLine(<<2020, 2, 29>>, 80, 2000)>>
               [] sid = "S1" ->
                    head \o <<DataLine(<<2019, 6, 15>>, 100, 1500),
                              BlankValueLine(<<2019, 6, 16>>),
                              DataLine(<<2020, 7, 1>>, 25, 10)>>
               [] OTHER -> head
        ELSE CASE sid = "S1" ->
                    head \o <<DataLine(<<2019, 6, 15>>, 95, 3),
                              DataLine(<<2019, 6, 15>>, 0, 27),
                              MetaLine,
                              DataLine(<<2021, 7, 1>>, 0, 40)>>
               [] sid = "W1" ->
                    head \o <<DataLine(<<2020, 7, 1>>, 17, 1),
                              DataLine(<<2020, 7, 1>>, 0, 9)>>
               [] OTHER -> <<MetaLine>>

\* parse_smhi_csv: skip to the line after the first "Datum;Tid" header, keep
\* the rows with four columns, a date and a numeric value
parse_smhi_csv(csv_text) ==
    LET headers == {i \in 1..Len(csv_text) : csv_text[i].header}
    IN  IF headers = {} THEN <<>>
        ELSE LET data_start == CHOOSE i \in headers : \A j \in headers : i <= j
                 data_lines == SubSeq(csv_text, data_start + 1, Len(csv_text))
                 kept == SelectSeq(data_lines,
                                   LAMBDA row : /\ row.cols >= 4
                                                /\ row.has_date
                                                /\ row.numeric)
             IN  List([i \in 1..Len(kept) |->
                     [date |-> kept[i].date, value |-> kept[i].value, n |-> kept[i].n]])

\* a freshness test that still accepts a file exactly CACHE_MAX_AGE_SECONDS old
is_cache_fresh_inclusive(file) ==
    /\ ~IsNone(file)
    /\ now - Val(file).mtime <= CACHE_MAX_AGE_SECONDS

\* _is_cache_fresh(path): the file exists and is younger than the TTL
is_cache_fresh(file) ==
    /\ ~IsNone(file)
    /\ now - Val(file).mtime < CACHE_MAX_AGE_SECONDS

\* fetch_station_csv(parameter_id, station_id)
fetch_station_csv(w, param, sid) ==
    LET key == <<param, sid>>
        asked == [w EXCEPT !.req[key] = @ + 1]
    IN  IF is_cache_fresh(w.csv[key])
        THEN [w |-> w, status |-> "ok", text |-> Val(w.csv[key]).text]
        ELSE IF upstream[key] = "ok"
        THEN [w |-> [asked EXCEPT !.csv[key] =
                        Some([mtime |-> now, text |-> UpstreamCsv(param, sid)])],
              status |-> "ok",
              text |-> UpstreamCsv(param, sid)]
        ELSE [w |-> asked, status |-> upstream[key], text |-> <<>>]

\* _fetch_raw_observations with "except Exception" in place of
\* "except requests.HTTPError": every failure leaves the rows empty
fetch_raw_observations_catching_all(w, sid) ==
    LET Rows(r) == IF r.status = "ok" THEN parse_smhi_csv(r.text) ELSE <<>>
        Done(w1, cloud_rows, weather_rows) ==
            [w |-> w1, status |-> "ok", cloud_rows |-> cloud_rows,
             weather_rows |-> weather_rows,
             has_lightning_data |-> Len(weather_rows) > 0]
        Weather(c, p) == Done(p.w, Rows(c), Rows(p))
        Cloud(c) == Weather(c, fetch_station_csv(c.w, PARAM_PRESENT_WEATHER, sid))
    IN  Cloud(fetch_station_csv(w, PARAM_CLOUD_COVERAGE, sid))

\* _fetch_raw_observations(station_id): requests.HTTPError leaves the rows
\* empty, any other exception propagates (status "conn_error")
fetch_raw_observations(w, sid) ==
    LET \* the rows of one CSV attempt r: empty after an HTTP error
        Rows(r) == IF r.status = "ok" THEN parse_smhi_csv(r.text) ELSE <<>>
        Done(w1, cloud_rows, weather_rows) ==
            [w |-> w1, status |-> "ok", cloud_rows |-> cloud_rows,
             weather_rows |-> weather_rows,
             has_lightning_data |-> Len(weather_rows) > 0]
        Raised(w1) ==
            [w |-> w1, status |-> "conn_error", cloud_rows |-> <<>>,
             weather_rows |-> <<>>, has_lightning_data |-> FALSE]
        \* after the present-weather attempt p
        Weather(c, p) ==
            IF p.status = "conn_error" THEN Raised(p.w) ELSE Done(p.w, Rows(c), Rows(p))
        \* after the cloud attempt c
        Cloud(c) ==
            IF c.status = "conn_error" THEN Raised(c.w)
            ELSE Weather(c, fetch_station_csv(c.w, PARAM_PRESENT_WEATHER, sid))
    IN  Cloud(fetch_station_csv(w, PARAM_CLOUD_COVERAGE, sid))

----------------------------------------------------------------------------
(* The result cache holds json.dumps(result); read_result_cache returns    *)
(* json.loads of the file.  A JSON document is held as its tokens: None    *)
(* becomes the null token, booleans "true"/"false", a number a num token.  *)

JsonNull == [tok |-> "null", num |-> 0]
JsonNum(v) == [tok |-> "num", num |-> v]
JsonOpt(x) == IF IsNone(x) THEN JsonNull ELSE JsonNum(Val(x))
UnJsonOpt(t) == IF t.tok = "null" THEN None ELSE Some(t.num)

JsonPoint(pt) ==
    [label |-> pt.label,
     cloud_coverage_avg |-> JsonOpt(pt.cloud_coverage_avg),
     lightning_probability |-> JsonOpt(pt.lightning_probability),
     lightning_lower |-> JsonOpt(pt.lightning_lower),
     lightning_upper |-> JsonOpt(pt.lightning_upper),
     obs_count |-> JsonNum(pt.obs_count)]

UnJsonPoint(t) ==
    [label |-> t.label,
     cloud_coverage_avg |-> UnJsonOpt(t.cloud_coverage_avg),
     lightning_probability |-> UnJsonOpt(t.lightning_probability),
     lightning_lower |-> UnJsonOpt(t.lightning_lower),
     lightning_upper |-> UnJsonOpt(t.lightning_upper),
     obs_count |-> t.obs_count.num]

\* json.dumps(data)
JsonDumps(data) ==
    [station_id |-> data.station_id,
     resolution |-> data.resolution,
     has_lightning_data |-> IF data.has_lightning_data THEN "true" ELSE "false",
     points |-> [i \in 1..Len(data.points) |-> JsonPoint(data.points[i])]]

\* json.loads(text)
JsonLoads(text) ==
    [station_id |-> text.station_id,
     resolution |-> text.resolution,
     has_lightning_data |-> text.has_lightning_data = "true",
     points |-> List([i \in 1..Len(text.points) |-> UnJsonPoint(text.points[i])])]

\* read_result_cache looking under a file name that write_result_cache never
\* writes: every lookup is a miss
read_result_cache_wrong_file(w, sid, resolution) == None

\* read_result_cache(station_id, resolution): the decoded file, or None
read_result_cache(w, sid, resolution) ==
    IF is_cache_fresh(w.res[<<sid, resolution>>])
    THEN Some(JsonLoads(Val(w.res[<<sid, resolution>>]).text))
    ELSE None

\* write_result_cache(station_id, resolution, data)
write_result_cache(w, sid, resolution, data) ==
    [w EXCEPT !.res[<<sid, resolution>>] = Some([mtime |-> now, text |-> JsonDumps(data)])]

\* resolution = "month" unless it is one of VALID_RESOLUTIONS
NormalizeResolution(resolution) ==
    IF resolution \in VALID_RESOLUTIONS THEN resolution ELSE "month"

\* get_station_weather_data after a result-cache miss, with the fetched
\* observations raw: aggregate, write the result cache, return the result
StationMiss(sid, res, raw) ==
    LET Store(result) ==
            [w |-> write_result_cache(
                       [raw.w EXCEPT !.agg = @ + 1, !.ret[<<sid, res>>] = Some(result)],
                       sid, res, result),
             status |-> "ok",
             value |-> result]
    IN  IF raw.status # "ok"
        THEN [w |-> raw.w, status |-> raw.status, value |-> <<>>]
        ELSE Store([station_id |-> sid,
                    resolution |-> res,
                    has_lightning_data |-> raw.has_lightning_data,
                    points |-> Aggregate(res, raw.cloud_rows, raw.weather_rows,
                                         raw.has_lightning_data)])

\* get_station_weather_data(station_id, resolution)
get_station_weather_data(w, sid, resolution) ==
    LET res == NormalizeResolution(resolution)
        Hit(cached) ==
            [w |-> [w EXCEPT !.ret[<<sid, res>>] = cached],
             status |-> "ok", value |-> Val(cached)]
    IN  IF ~IsNone(read_result_cache(w, sid, res))
        THEN Hit(read_result_cache(w, sid, res))
        ELSE StationMiss(sid, res, fetch_raw_observations(w, sid))

----------------------------------------------------------------------------
(* stations.py: station discovery *)

QueryPoints == {"Q1"}

\* round(haversine_km(lat, lng, s.latitude, s.longitude), 1) in tenths of a km,
\* tabulated for the query points and stations of the model
haversine_km(q, sid) ==
    CASE sid = "C1" -> 10
      [] sid = "S1" -> 20
      [] OTHER -> 70

\* _bearing(target_lat, target_lng, s.latitude, s.longitude) in whole degrees,
\* tabulated likewise
bearing(q, sid) ==
    CASE sid = "C1" -> 45
      [] sid = "S1" -> 200
      [] OTHER -> 300

\* the station rosters SMHI can publish for the two parameters
RosterEntry(sid, active) == [key |-> sid, name |-> sid, active |-> active]

MainRoster ==
    [cloud |-> <<RosterEntry("S1", TRUE), RosterEntry("C1", TRUE)>>,
     weather |-> <<RosterEntry("W1", TRUE), RosterEntry("S1", TRUE)>>]

Rosters ==
    {MainRoster,
     [cloud |-> <<RosterEntry("C1", FALSE)>>,
      weather |-> <<RosterEntry("W1", TRUE), RosterEntry("S1", TRUE)>>],
     [cloud |-> <<RosterEntry("W1", TRUE), RosterEntry("S1", TRUE), RosterEntry("C1", TRUE)>>,
      weather |-> <<>>]}

\* list.sort(key=distance_km): stable insertion into a sorted list
RECURSIVE InsertByDistance(_, _)
InsertByDistance(sorted, st) ==
    IF sorted = <<>> THEN <<st>>
    ELSE IF st.distance_km < Head(sorted).distance_km THEN <<st>> \o sorted
    ELSE <<Head(sorted)>> \o InsertByDistance(Tail(sorted), st)

RECURSIVE SortByDistance(_)
SortByDistance(stations) ==
    IF stations = <<>> THEN <<>>
    ELSE InsertByDistance(SortByDistance(SubSeq(stations, 1, Len(stations) - 1)),
                          stations[Len(stations)])

\* get_nearby_stations(lat, lng, parameter_id, count) on the roster that
\* fetch_station_list(parameter_id) returned
get_nearby_stations(q, raw_stations, count) ==
    LET active == SelectSeq(raw_stations, LAMBDA st : st.active)
        stations == List([i \in 1..Len(active) |->
                        [id |-> active[i].key,
                         name |-> active[i].name,
                         distance_km |-> haversine_km(q, active[i].key)]])
        sorted == SortByDistance(stations)
    IN  SubSeq(sorted, 1, Min2(count, Len(sorted)))

----------------------------------------------------------------------------
(* quality.py *)

LevelOrder(level) == CASE level = "poor" -> 0 [] level = "fair" -> 1 [] OTHER -> 2
FactorLevel(order) == CASE order = 0 -> "poor" [] order = 1 -> "fair" [] OTHER -> "good"
LevelMap(order) == CASE order = 0 -> "low" [] order = 1 -> "medium" [] OTHER -> "high"

\* _GOOD_OBS.get(resolution, 500)
GoodObs(resolution) ==
    CASE resolution = "day" -> 30 [] resolution = "year" -> 2000 [] OTHER -> 500

\* _EMPTY_DIM as the module defines it
EmptyDimInitial ==
    [station_coverage |-> [value |-> 0, level |-> "poor",
                           summary |-> "No station data available."],
     historical_data |-> [value |-> 0, level |-> "poor",
                          summary |-> "No historical data available."]]

\* EMPTY_QUALITY: its cloud and lightning entries are shallow copies of
\* _EMPTY_DIM, so they show the nested dicts as they are now
EMPTY_QUALITY(ed) == [level |-> "low", cloud |-> ed, lightning |-> ed]

\* _classify(value, good_thresh, fair_thresh, higher_is_better)
classify(value, good_thresh, fair_thresh, higher_is_better) ==
    IF higher_is_better
    THEN IF value >= good_thresh THEN "good"
         ELSE IF value >= fair_thresh THEN "fair" ELSE "poor"
    ELSE IF value <= good_thresh THEN "good"
         ELSE IF value <= fair_thresh THEN "fair" ELSE "poor"

\* _angular_spread(bearings), whole degrees
angular_spread(bearings) ==
    IF Len(bearings) <= 1 THEN 0
    ELSE LET B == {bearings[i] % 360 : i \in 1..Len(bearings)}
             sorted == SortedInts(B)
             gaps == {sorted[i + 1] - sorted[i] : i \in 1..(Len(sorted) - 1)}
                        \cup {(360 - sorted[Len(sorted)]) + sorted[1]}
             max_gap == CHOOSE g \in gaps : \A h \in gaps : g >= h
         IN  360 - max_gap

\* p.get(obs_key, 0)
ObsOf(p, obs_key) == IF obs_key \in DOMAIN p THEN p[obs_key] ELSE 0

\* _assess_dimension: the historical_data entry for the two percentages (in
\* tenths).  The summaries are named by the branch that words them.
HistoricalData(coverage_val, depth_val) ==
    LET coverage_level == classify(coverage_val, 900, 600, TRUE)
        depth_level == classify(depth_val, 700, 400, TRUE)
    IN  [value |-> RoundHalfEven(coverage_val + depth_val, 2),
         level |-> FactorLevel(Min2(LevelOrder(coverage_level), LevelOrder(depth_level))),
         summary |-> <<IF coverage_val = 1000 THEN "every" ELSE coverage_level,
                       depth_level>>]

\* _assess_dimension: coverage and depth of the points
HistoricalFactor(points, resolution, obs_key) ==
    LET total_pts == Len(points)
        good_baseline == GoodObs(resolution)
        Obs(i) == ObsOf(points[i], obs_key)
    IN  IF total_pts > 0
        THEN HistoricalData(
                 RoundHalfEven(1000 * Cardinality({i \in 1..total_pts : Obs(i) > 0}),
                               total_pts),
                 RoundHalfEven(
                     1000 * SumSeq([i \in 1..total_pts |-> Min2(Obs(i), good_baseline)]),
                     good_baseline * total_pts))
        ELSE HistoricalData(0, 0)

\* the station_coverage entry with the proximity score as its value whenever
\* the largest weight reaches 0.85 or a promotion changed the grade
StationFactorProximityWhenPromoted(den, dist_num, spread, max_num) ==
    LET capped == Min2(dist_num, 2000 * den)
        prox_val == Max2(0, Min2(1000, RoundHalfEven(2000 * den - capped, 2 * den)))
        prox_level == IF dist_num <= 250 * den THEN "good"
                      ELSE IF dist_num <= 750 * den THEN "fair" ELSE "poor"
        dir_val == RoundHalfEven(1000 * Min2(spread, 360), 360)
        dir_level == classify(spread, 180, 90, TRUE)
        effective_dir ==
            IF 100 * max_num >= 85 * den THEN "good"
            ELSE IF 100 * max_num >= 60 * den
            THEN FactorLevel(Min2(LevelOrder(dir_level) + 1, 2))
            ELSE dir_level
    IN  [value |-> IF 100 * max_num >= 85 * den \/ effective_dir # dir_level
                   THEN prox_val
                   ELSE RoundHalfEven(prox_val + dir_val, 2),
         level |-> FactorLevel(Min2(LevelOrder(prox_level), LevelOrder(effective_dir))),
         summary |-> <<IF 100 * max_num >= 85 * den THEN "dominant" ELSE prox_level,
                       IF 100 * max_num < 85 * den /\ dir_level \in {"poor", "fair"}
                       THEN dir_level ELSE "none">>]

\* the station_coverage entry without the one-level promotion for a largest
\* weight between 0.60 and 0.85
StationFactorNoPromotion(den, dist_num, spread, max_num) ==
    LET capped == Min2(dist_num, 2000 * den)
        prox_val == Max2(0, Min2(1000, RoundHalfEven(2000 * den - capped, 2 * den)))
        prox_level == IF dist_num <= 250 * den THEN "good"
                      ELSE IF dist_num <= 750 * den THEN "fair" ELSE "poor"
        dir_val == RoundHalfEven(1000 * Min2(spread, 360), 360)
        dir_level == classify(spread, 180, 90, TRUE)
        effective_dir == IF 100 * max_num >= 85 * den THEN "good" ELSE dir_level
    IN  [value |-> IF effective_dir = "good" /\ dir_level # "good"
                   THEN prox_val
                   ELSE RoundHalfEven(prox_val + dir_val, 2),
         level |-> FactorLevel(Min2(LevelOrder(prox_level), LevelOrder(effective_dir))),
         summary |-> <<IF 100 * max_num >= 85 * den THEN "dominant" ELSE prox_level,
                       IF 100 * max_num < 85 * den /\ dir_level \in {"poor", "fair"}
                       THEN dir_level ELSE "none">>]

\* _assess_dimension: the station_coverage entry.  A weight is the fraction
\* num/den; dist_num is avg_dist * den in tenths of a km, spread is in whole
\* degrees, max_num is max_weight * den.
StationFactor(den, dist_num, spread, max_num) ==
    LET capped == Min2(dist_num, 2000 * den)
        prox_val == Max2(0, Min2(1000, RoundHalfEven(2000 * den - capped, 2 * den)))
        prox_level == IF dist_num <= 250 * den THEN "good"
                      ELSE IF dist_num <= 750 * den THEN "fair" ELSE "poor"
        dir_val == RoundHalfEven(1000 * Min2(spread, 360), 360)
        dir_level == classify(spread, 180, 90, TRUE)
        effective_dir ==
            IF 100 * max_num >= 85 * den THEN "good"
            ELSE IF 100 * max_num >= 60 * den
            THEN FactorLevel(Min2(LevelOrder(dir_level) + 1, 2))
            ELSE dir_level
    IN  [value |-> IF effective_dir = "good" /\ dir_level # "good"
                   THEN prox_val
                   ELSE RoundHalfEven(prox_val + dir_val, 2),
         level |-> FactorLevel(Min2(LevelOrder(prox_level), LevelOrder(effective_dir))),
         summary |-> <<IF 100 * max_num >= 85 * den THEN "dominant" ELSE prox_level,
                       IF 100 * max_num < 85 * den /\ dir_level \in {"poor", "fair"}
                       THEN dir_level ELSE "none">>]

\* _assess_dimension: proximity and directional spread of the stations
StationCoverage(station_data, target) ==
    LET n == Len(station_data)
    IN  StationFactor(
            station_data[1].weight.den,
            SumSeq([i \in 1..n |->
                station_data[i].station.distance_km * station_data[i].weight.num]),
            angular_spread([i \in 1..n |-> bearing(target, station_data[i].station.id)]),
            CHOOSE x \in {station_data[i].weight.num : i \in 1..n} :
                \A i \in 1..n : x >= station_data[i].weight.num)

\* the dimension graded by the better of its two factors
assess_dimension_best_factor(ed, points, resolution, station_data, target, obs_key) ==
    LET Dim(sc, hd) ==
            [dim |-> [station_coverage |-> sc, historical_data |-> hd],
             level |-> FactorLevel(Max2(LevelOrder(hd.level), LevelOrder(sc.level)))]
    IN  IF station_data = <<>> THEN [dim |-> ed, level |-> "poor"]
        ELSE Dim(StationCoverage(station_data, target),
                 HistoricalFactor(points, resolution, obs_key))

\* _assess_dimension(points, resolution, station_data, target, obs_key): the
\* pair (dim_result, dim_level)
assess_dimension(ed, points, resolution, station_data, target, obs_key) ==
    LET Dim(sc, hd) ==
            [dim |-> [station_coverage |-> sc, historical_data |-> hd],
             level |-> FactorLevel(Min2(LevelOrder(hd.level), LevelOrder(sc.level)))]
    IN  IF station_data = <<>> THEN [dim |-> ed, level |-> "poor"]
        ELSE Dim(StationCoverage(station_data, target),
                 HistoricalFactor(points, resolution, obs_key))

\* all_levels with the missing lightning dimension left out instead of
\* being entered as "fair"
OverallLevelsUncapped(cloud_level, lightning_level, has_lightning_stations) ==
    IF has_lightning_stations THEN <<cloud_level, lightning_level>>
    ELSE <<cloud_level>>

\* all_levels: without lightning stations the overall level is capped at
\* "medium" by entering "fair"
OverallLevels(cloud_level, lightning_level, has_lightning_stations) ==
    IF has_lightning_stations THEN <<cloud_level, lightning_level>>
    ELSE <<cloud_level, "fair">>

\* compute_quality(cloud_points, lightning_points, resolution, cloud_station_data,
\* lightning_station_data, target): the quality record, and _EMPTY_DIM's nested
\* dicts as the call leaves them (the two summary assignments go through the
\* shallow copy into the shared dicts)
compute_quality(ed, cloud_points, lightning_points, resolution, cloud_station_data, lightning_station_data, target) ==
    LET ed_after ==
            IF lightning_station_data # <<>> THEN ed
            ELSE [ed EXCEPT
                    !.station_coverage.summary =
                        "No nearby stations record lightning observations.",
                    !.historical_data.summary =
                        "No lightning data is available for this area."]
        Worst(all_levels) ==
            CHOOSE o \in {LevelOrder(all_levels[i]) : i \in 1..Len(all_levels)} :
                \A i \in 1..Len(all_levels) : o <= LevelOrder(all_levels[i])
        \* cloud and lightning are the two (dim_result, dim_level) pairs
        Overall(cloud, lightning) ==
            [value |-> [level |-> LevelMap(Worst(OverallLevels(
                                      cloud.level,
                                      IF lightning_station_data # <<>>
                                      THEN lightning.level ELSE "poor",
                                      lightning_station_data # <<>>))),
                        cloud |-> IF cloud_station_data = <<>> THEN ed_after ELSE cloud.dim,
                        lightning |-> IF lightning_station_data # <<>>
                                      THEN lightning.dim ELSE ed_after],
             ed |-> ed_after]
    IN  Overall(assess_dimension(ed, cloud_points, resolution, cloud_station_data,
                                 target, "obs_count"),
                assess_dimension(ed, lightning_points, resolution,
                                 lightning_station_data, target, "lightning_obs_count"))

----------------------------------------------------------------------------
(* weather.py: multi-station blending *)

\* _blend_cloud_point(label, entries), entries = <<[w, pt], ...>>; a weight w
\* is the numerator of the station's normalised weight (the common
\* denominator cancels in total / w_sum)
blend_cloud_point(label, entries) ==
    LET n == Len(entries)
        present == SelectSeq(entries, LAMBDA e : ~IsNone(e.pt.cloud_coverage_avg))
        total == SumSeq([i \in 1..Len(present) |->
                            Val(present[i].pt.cloud_coverage_avg) * present[i].w])
        w_sum == SumSeq([i \in 1..Len(present) |-> present[i].w])
    IN  [label |-> label,
         cloud_coverage_avg |-> IF w_sum > 0 THEN Some(RoundHalfEven(total, w_sum)) ELSE None,
         obs_count |-> SumSeq([i \in 1..n |-> ObsOf(entries[i].pt, "obs_count")])]

\* round(sum / w, 2) if w > 0 else None, over the entries whose field is set
BlendField(entries, field) ==
    LET present == SelectSeq(entries, LAMBDA e : ~IsNone(e.pt[field]))
        f_sum == SumSeq([i \in 1..Len(present) |-> Val(present[i].pt[field]) * present[i].w])
        f_w == SumSeq([i \in 1..Len(present) |-> present[i].w])
    IN  IF f_w > 0 THEN Some(RoundHalfEven(f_sum, f_w)) ELSE None

\* _blend_lightning_point(label, entries)
blend_lightning_point(label, entries) ==
    [label |-> label,
     lightning_probability |-> BlendField(entries, "lightning_probability"),
     lightning_lower |-> BlendField(entries, "lightning_lower"),
     lightning_upper |-> BlendField(entries, "lightning_upper"),
     lightning_obs_count |->
        SumSeq([i \in 1..Len(entries) |-> ObsOf(entries[i].pt, "obs_count")])]

\* entries = [(sd["weight"], sd["data"]["points"][idx]) for sd in station_data]
FixedEntries(station_data, idx) ==
    List([k \in 1..Len(station_data) |->
        [w |-> station_data[k].weight.num, pt |-> station_data[k].data.points[idx]]])

\* _blend_fixed_cloud(station_data)
blend_fixed_cloud(station_data) ==
    List([idx \in 1..Len(station_data[1].data.points) |->
        blend_cloud_point(station_data[1].data.points[idx].label,
                          FixedEntries(station_data, idx))])

\* _blend_fixed_lightning(station_data)
blend_fixed_lightning(station_data) ==
    List([idx \in 1..Len(station_data[1].data.points) |->
        blend_lightning_point(station_data[1].data.points[idx].label,
                              FixedEntries(station_data, idx))])

\* the years a yearly label can name
LabelYears == 2000..2030
LabelYear(label) == CHOOSE y \in LabelYears : ToString(y) = label

\* sorted(all_labels.keys())
SortedLabels(station_data) ==
    LET labels == UNION {{station_data[k].data.points[i].label :
                            i \in 1..Len(station_data[k].data.points)} :
                         k \in 1..Len(station_data)}
        years == SortedInts({LabelYear(l) : l \in labels})
    IN  List([i \in 1..Len(years) |-> ToString(years[i])])

\* the (weight, point) pairs of the stations that have a point labelled label
YearlyEntries(station_data, label) ==
    LET having == SelectSeq(station_data,
                    LAMBDA sd : \E i \in 1..Len(sd.data.points) :
                                    sd.data.points[i].label = label)
    IN  List([k \in 1..Len(having) |->
            [w |-> having[k].weight.num,
             pt |-> having[k].data.points[
                        CHOOSE i \in 1..Len(having[k].data.points) :
                            having[k].data.points[i].label = label]]])

\* _blend_yearly_cloud(station_data)
blend_yearly_cloud(station_data) ==
    LET labels == SortedLabels(station_data)
    IN  List([i \in 1..Len(labels) |->
            blend_cloud_point(labels[i], YearlyEntries(station_data, labels[i]))])

\* _blend_yearly_lightning(station_data)
blend_yearly_lightning(station_data) ==
    LET labels == SortedLabels(station_data)
    IN  List([i \in 1..Len(labels) |->
            blend_lightning_point(labels[i], YearlyEntries(station_data, labels[i]))])

\* _merge_points(cloud_points, lightning_points)
merge_points(cloud_points, lightning_points) ==
    List([i \in 1..Len(cloud_points) |->
        LET cp == cloud_points[i]
            hits == {j \in 1..Len(lightning_points) : lightning_points[j].label = cp.label}
            found == hits # {}
            lp == lightning_points[CHOOSE j \in hits : \A h \in hits : j >= h]
        IN  [label |-> cp.label,
             cloud_coverage_avg |-> cp.cloud_coverage_avg,
             lightning_probability |-> IF found THEN lp.lightning_probability ELSE None,
             lightning_lower |-> IF found THEN lp.lightning_lower ELSE None,
             lightning_upper |-> IF found THEN lp.lightning_upper ELSE None,
             obs_count |-> ObsOf(cp, "obs_count")]])

\* _normalize_weights(station_data): weight = raw_weight / total, kept as a
\* fraction
normalize_weights(station_data) ==
    LET total == TotalRawWeight(station_data)
    IN  List([k \in 1..Len(station_data) |->
            [station |-> station_data[k].station,
             raw_weight |-> station_data[k].raw_weight,
             data |-> station_data[k].data,
             weight |-> [num |-> station_data[k].raw_weight, den |-> total]]])

\* _fetch_station_data that keeps a station whose aggregation raised, with
\* the points of a station without observations
RECURSIVE FetchLoopKeepingFailed(_, _, _, _)
FetchLoopKeepingFailed(w, selected, resolution, k) ==
    IF k = 0 THEN [w |-> w, data |-> <<>>]
    ELSE LET Keep(before, r) ==
                 [w |-> r.w,
                  data |-> Append(before.data,
                                  [station |-> selected[k].station,
                                   raw_weight |-> selected[k].raw_weight,
                                   data |-> IF r.status = "ok" THEN r.value
                                            ELSE [station_id |-> selected[k].station.id,
                                                  resolution |-> resolution,
                                                  has_lightning_data |-> FALSE,
                                                  points |-> Aggregate(resolution, <<>>,
                                                                       <<>>, FALSE)]])]
             Iterate(before) ==
                 Keep(before, get_station_weather_data(before.w, selected[k].station.id,
                                                       resolution))
         IN  Iterate(FetchLoopKeepingFailed(w, selected, resolution, k - 1))

\* one iteration of the loop of _fetch_station_data, for the entry sd of
\* selected: a station whose aggregation raises is left out
FetchOne(before, sd, resolution) ==
    LET Keep(r) ==
            IF r.status = "ok"
            THEN [w |-> r.w,
                  data |-> Append(before.data, [station |-> sd.station,
                                                raw_weight |-> sd.raw_weight,
                                                data |-> r.value])]
            ELSE [w |-> r.w, data |-> before.data]
    IN  Keep(get_station_weather_data(before.w, sd.station.id, resolution))

\* _fetch_station_data(selected, resolution) after its first k iterations
RECURSIVE FetchLoop(_, _, _, _)
FetchLoop(w, selected, resolution, k) ==
    IF k = 0 THEN [w |-> w, data |-> <<>>]
    ELSE FetchOne(FetchLoop(w, selected, resolution, k - 1), selected[k], resolution)

fetch_station_data(w, selected, resolution) ==
    FetchLoop(w, selected, resolution, Len(selected))

\* _stations_info(station_data); weight_pct in tenths of a percent
stations_info(station_data) ==
    List([k \in 1..Len(station_data) |->
        [id |-> station_data[k].station.id,
         name |-> station_data[k].station.name,
         distance_km |-> station_data[k].station.distance_km,
         weight_pct |-> RoundHalfEven(1000 * station_data[k].weight.num,
                                      station_data[k].weight.den)]])

----------------------------------------------------------------------------
(* weather.py: get_location_weather *)

Ids(station_data) == [k \in 1..Len(station_data) |-> station_data[k].station.id]

\* the stations among selected whose result-cache entry is missing or stale
Uncached(w, selected, resolution) ==
    {selected[k].station.id : k \in
        {k \in 1..Len(selected) :
            IsNone(read_result_cache(w, selected[k].station.id, resolution))}}

\* step 3: fetch_station_csv for both parameters of every station in all_ids,
\* each exception swallowed.  The tasks write distinct files, so the order in
\* which the pool runs them does not show in the outcome.
RECURSIVE Prefetch(_, _)
Prefetch(w, all_ids) ==
    IF all_ids = {} THEN w
    ELSE LET sid == CHOOSE x \in all_ids : TRUE
             c == fetch_station_csv(w, PARAM_CLOUD_COVERAGE, sid)
             p == fetch_station_csv(c.w, PARAM_PRESENT_WEATHER, sid)
         IN  Prefetch(p.w, all_ids \ {sid})

\* the result returned when there is nothing to blend
EmptyResult(w, resolution) ==
    [has_lightning_data |-> FALSE,
     resolution |-> resolution,
     points |-> <<>>,
     cloud_stations |-> <<>>,
     lightning_stations |-> <<>>,
     quality |-> EMPTY_QUALITY(w.ed)]

\* the lightning pipeline picks from the cloud candidates
LightningFromCloudCandidates(cloud_nearby, lightning_nearby) ==
    IF lightning_nearby # <<>> THEN select_stations(cloud_nearby) ELSE <<>>

\* lightning_selected = select_stations(lightning_nearby) if lightning_nearby else []
LightningSelected(cloud_nearby, lightning_nearby) ==
    IF lightning_nearby # <<>> THEN select_stations(lightning_nearby) ELSE <<>>

\* The steps of get_location_weather pass along the call's local variables
\* c: the world c.w, the arguments, the lists built so far, and c.path, which
\* is "running" until a return statement is reached.

\* step 1: station discovery; without cloud candidates the call returns
Step1Discovery(w, q, roster, resolution) ==
    LET Found(cloud_nearby, lightning_nearby) ==
            [w |-> w, q |-> q, resolution |-> resolution,
             path |-> IF cloud_nearby = <<>> THEN "no_candidates" ELSE "running",
             value |-> EmptyResult(w, resolution),
             cloud_nearby |-> cloud_nearby, lightning_nearby |-> lightning_nearby,
             cloud_selected |-> <<>>, lightning_selected |-> <<>>,
             cloud_data |-> <<>>, lightning_data |-> <<>>, has_lightning |-> FALSE,
             cloud_points |-> <<>>, lightning_points |-> <<>>, points |-> <<>>,
             cloud_yearly_points |-> <<>>, lightning_yearly_points |-> <<>>]
    IN  Found(get_nearby_stations(q, roster.cloud, 10),
              get_nearby_stations(q, roster.weather, 10))

\* step 2: adaptive station selection
Step2Selection(c) ==
    IF c.path # "running" THEN c
    ELSE [c EXCEPT !.cloud_selected = select_stations(c.cloud_nearby),
                   !.lightning_selected =
                       LightningSelected(c.cloud_nearby, c.lightning_nearby)]

\* step 3: parallel CSV download
Step3Download(c) ==
    IF c.path # "running" THEN c
    ELSE [c EXCEPT !.w = Prefetch(c.w, Uncached(c.w, c.cloud_selected, c.resolution)
                                      \cup Uncached(c.w, c.lightning_selected,
                                                    c.resolution))]

\* step 4: cloud_data = _fetch_station_data(cloud_selected, resolution)
Step4FetchCloud(c) ==
    LET Fetched(r) == [c EXCEPT !.w = r.w, !.cloud_data = r.data]
    IN  IF c.path # "running" THEN c
        ELSE Fetched(fetch_station_data(c.w, c.cloud_selected, c.resolution))

\* step 4: lightning_data = _fetch_station_data(lightning_selected, resolution)
Step4FetchLightning(c) ==
    LET Fetched(r) == [c EXCEPT !.w = r.w, !.lightning_data = r.data]
    IN  IF c.path # "running" THEN c
        ELSE Fetched(fetch_station_data(c.w, c.lightning_selected, c.resolution))

\* step 4: without cloud data the call returns
Step4Return(c) ==
    IF c.path = "running" /\ c.cloud_data = <<>>
    THEN [c EXCEPT !.path = "no_cloud_data", !.value = EmptyResult(c.w, c.resolution)]
    ELSE c

\* step 5: normalise the weights of each list
Step5Normalise(c) ==
    IF c.path # "running" THEN c
    ELSE [c EXCEPT !.cloud_data = normalize_weights(c.cloud_data),
                   !.lightning_data = IF c.lightning_data # <<>>
                                      THEN normalize_weights(c.lightning_data)
                                      ELSE <<>>,
                   !.has_lightning = Len(c.lightning_data) > 0]

\* step 6: blend cloud and lightning, merge the points
Step6Blend(c) ==
    LET Blended(cloud_points, lightning_points) ==
            [c EXCEPT !.cloud_points = cloud_points,
                      !.lightning_points = lightning_points,
                      !.points = merge_points(cloud_points, lightning_points)]
    IN  IF c.path # "running" THEN c
        ELSE Blended(IF c.resolution = "year" THEN blend_yearly_cloud(c.cloud_data)
                     ELSE blend_fixed_cloud(c.cloud_data),
                     IF ~c.has_lightning THEN <<>>
                     ELSE IF c.resolution = "year"
                     THEN blend_yearly_lightning(c.lightning_data)
                     ELSE blend_fixed_lightning(c.lightning_data))

\* step 7 grading the cloud dimension on the blend of the requested
\* resolution instead of the yearly one
Step7RequestedCloud(c) ==
    IF c.path # "running" THEN c
    ELSE [c EXCEPT !.cloud_yearly_points = c.cloud_points]

\* step 7: cloud_yearly_points
Step7YearlyCloud(c) ==
    LET Fetched(r) ==
            [c EXCEPT !.w = r.w,
                      !.cloud_yearly_points =
                          IF r.data # <<>>
                          THEN blend_yearly_cloud(normalize_weights(r.data))
                          ELSE <<>>]
    IN  IF c.path # "running" THEN c
        ELSE IF c.resolution = "year"
        THEN [c EXCEPT !.cloud_yearly_points = c.cloud_points]
        ELSE Fetched(fetch_station_data(c.w, c.cloud_selected, "year"))

\* step 7: lightning_yearly_points
Step7YearlyLightning(c) ==
    LET Fetched(r) ==
            [c EXCEPT !.w = r.w,
                      !.lightning_yearly_points =
                          IF r.data # <<>>
                          THEN blend_yearly_lightning(normalize_weights(r.data))
                          ELSE <<>>]
    IN  IF c.path # "running" THEN c
        ELSE IF c.resolution = "year"
        THEN [c EXCEPT !.lightning_yearly_points = c.lightning_points]
        ELSE IF ~c.has_lightning THEN c
        ELSE Fetched(fetch_station_data(c.w, c.lightning_selected, "year"))

\* step 7: compute_quality, and the returned dict
Step7Quality(c) ==
    LET Assessed(quality) ==
            [c EXCEPT !.w.ed = quality.ed,
                      !.path = "blended",
                      !.value = [has_lightning_data |-> c.has_lightning,
                                 resolution |-> c.resolution,
                                 points |-> c.points,
                                 cloud_stations |-> stations_info(c.cloud_data),
                                 lightning_stations |-> stations_info(c.lightning_data),
                                 quality |-> quality.value]]
    IN  IF c.path # "running" THEN c
        ELSE Assessed(compute_quality(c.w.ed, c.cloud_yearly_points,
                                      c.lightning_yearly_points, "year",
                                      c.cloud_data, c.lightning_data, c.q))

\* what a get_location_weather call leaves behind: the world after the call,
\* the returned dict, and what the call went through (the ids of the
\* candidates, of the selected stations and of the stations whose data was
\* fetched)
LocationOutcome(c) ==
    [w |-> c.w,
     value |-> c.value,
     path |-> c.path,
     cloud_nearby |-> [k \in 1..Len(c.cloud_nearby) |-> c.cloud_nearby[k].id],
     lightning_nearby |-> [k \in 1..Len(c.lightning_nearby) |-> c.lightning_nearby[k].id],
     cloud_selected |-> Ids(c.cloud_selected),
     lightning_selected |-> Ids(c.lightning_selected),
     cloud_data |-> Ids(c.cloud_data),
     lightning_data |-> Ids(c.lightning_data)]

\* steps 4 to 7 of get_location_weather, run by the request thread once the
\* pool of step 3 has shut down
Steps4To7(c) ==
    Step7Quality(Step7YearlyLightning(Step7YearlyCloud(Step6Blend(
        Step5Normalise(Step4Return(Step4FetchLightning(Step4FetchCloud(c))))))))

\* get_location_weather(lat, lng, resolution) with the rosters SMHI publishes
\* at the time
get_location_weather(w, q, roster, resolution_arg) ==
    LocationOutcome(Steps4To7(Step3Download(Step2Selection(
        Step1Discovery(w, q, roster, NormalizeResolution(resolution_arg))))))

----------------------------------------------------------------------------
(* Spec: the engine.  Requests arrive one at a time; between requests the  *)
(* clock advances and the SMHI server changes how it answers.              *)

MaxSteps == 3

\* the CSV files whose availability changes over time
DataKeys == {<<PARAM_CLOUD_COVERAGE, "C1">>, <<PARAM_CLOUD_COVERAGE, "S1">>,
             <<PARAM_PRESENT_WEATHER, "S1">>, <<PARAM_PRESENT_WEATHER, "W1">>}

UpstreamInitial ==
    [k \in Keys |-> IF k = <<PARAM_CLOUD_COVERAGE, "W1">> THEN "http_error" ELSE "ok"]

\* clock advances between requests
Ticks == {CACHE_MAX_AGE_SECONDS - 1, CACHE_MAX_AGE_SECONDS}

\* the requests that arrive: every station and roster at the month and year
\* resolutions, and the 366-point day resolution for the station that has
\* both kinds of data
StationRequests ==
    (StationIds \X {"month", "year"}) \cup {<<"S1", "day">>}

LocationRequests == QueryPoints \X Rosters \X {"month", "year"}

PureIdle == inp = <<>> /\ out = <<>> /\ pc = "engine"

Init ==
    /\ PureIdle
    /\ now = 0
    /\ upstream = UpstreamInitial
    /\ csv_cache = [k \in Keys |-> None]
    /\ result_cache = [k \in StationIds \X Resolutions |-> None]
    /\ empty_dim = EmptyDimInitial
    /\ last = [op |-> "none"]
    /\ returned = [k \in StationIds \X Resolutions |-> None]
    /\ nsteps = 0 /\ parsed_csv_cache = <<>>
    /\ PreloadIdle

\* the world a request starts in
World ==
    [csv |-> csv_cache, res |-> result_cache, req |-> [k \in Keys |-> 0], agg |-> 0,
     ed |-> empty_dim, ret |-> returned]

\* age of a cache file at the start of a request, None when it does not exist
FileAge(file) == IF IsNone(file) THEN None ELSE Some(now - Val(file).mtime)

Commit(w) ==
    /\ csv_cache' = w.csv
    /\ result_cache' = w.res
    /\ empty_dim' = w.ed
    /\ returned' = w.ret
    /\ nsteps' = nsteps + 1
    /\ UNCHANGED <<pureVars, now, upstream, preloadVars, parsed_csv_cache>>

\* GET /api/weather-data/<station_id>?resolution=...
StationCall ==
    /\ nsteps < MaxSteps
    /\ \E req \in StationRequests :
        \E sid \in {req[1]}, resolution \in {req[2]},
           r \in {get_station_weather_data(World, req[1], req[2])} :
            /\ last' = [op |-> "station",
                        station_id |-> sid,
                        resolution |-> resolution,
                        status |-> r.status,
                        value |-> r.value,
                        requests |-> r.w.req,
                        aggregations |-> r.w.agg,
                        entry_age |-> FileAge(result_cache[<<sid, resolution>>]),
                        entry_before |-> result_cache[<<sid, resolution>>],
                        csv_age |-> [k \in Keys |-> FileAge(csv_cache[k])],
                        previous |-> returned[<<sid, resolution>>],
                        written |-> {k \in DOMAIN result_cache : r.w.res[k] # result_cache[k]},
                        upstream |-> upstream,
                        at |-> now]
            /\ Commit(r.w)

\* GET /api/location-weather?lat=...&lng=...&resolution=...
LocationCall ==
    /\ nsteps < MaxSteps
    /\ \E req \in LocationRequests :
        \E q \in {req[1]}, roster \in {req[2]}, resolution \in {req[3]},
           r \in {get_location_weather(World, req[1], req[2], req[3])} :
            /\ last' = [op |-> "location",
                        target |-> q,
                        roster |-> roster,
                        resolution |-> resolution,
                        value |-> r.value,
                        path |-> r.path,
                        cloud_nearby |-> r.cloud_nearby,
                        lightning_nearby |-> r.lightning_nearby,
                        cloud_selected |-> r.cloud_selected,
                        lightning_selected |-> r.lightning_selected,
                        cloud_data |-> r.cloud_data,
                        lightning_data |-> r.lightning_data,
                        requests |-> r.w.req,
                        aggregations |-> r.w.agg,
                        entry_age |-> [s \in StationIds |->
                                        FileAge(result_cache[<<s, resolution>>])],
                        csv_age |-> [k \in Keys |-> FileAge(csv_cache[k])],
                        upstream |-> upstream,
                        at |-> now]
            /\ Commit(r.w)

\* time passes
Tick ==
    /\ nsteps < MaxSteps
    /\ \E dt \in Ticks : now' = now + dt
    /\ nsteps' = nsteps + 1
    /\ UNCHANGED <<pureVars, upstream, csv_cache, result_cache, empty_dim, last, returned,
                   preloadVars, parsed_csv_cache>>

\* the server starts answering one CSV request differently
UpstreamChange ==
    /\ nsteps < MaxSteps
    /\ \E k \in DataKeys : \E o \in Outcomes \ {upstream[k]} :
        upstream' = [upstream EXCEPT ![k] = o]
    /\ nsteps' = nsteps + 1
    /\ UNCHANGED <<pureVars, now, csv_cache, result_cache, empty_dim, last, returned,
                   preloadVars, parsed_csv_cache>>

Next == StationCall \/ LocationCall \/ Tick \/ UpstreamChange

Spec == Init /\ [][Next]_vars

----------------------------------------------------------------------------
(* SpecQuality: compute_quality called again and again in one process, on  *)
(* arguments drawn from bounded sets.  _EMPTY_DIM (empty_dim) lives as     *)
(* long as the process does.                                               *)

\* one entry of the station_data list handed to compute_quality: the station,
\* its distance in tenths of a km and its normalized weight num/100
QualityStation(sid, dist, num) ==
    [station |-> [id |-> sid, name |-> sid, distance_km |-> dist],
     weight |-> [num |-> num, den |-> 100]]

\* two stations in the same direction (W1, W2) or 155 degrees apart (C1, S1),
\* the first with weight num/100; the lists below put the largest weight on
\* both sides of the 0.85 and 0.60 thresholds
QualityPair(a, b, dist, num) ==
    <<QualityStation(a, dist, num), QualityStation(b, dist, 100 - num)>>

CloudStationLists ==
    {<<>>,
     <<QualityStation("C1", 100, 100)>>,
     <<QualityStation("C1", 40, 40), QualityStation("S1", 50, 30),
       QualityStation("W1", 60, 30)>>,
     QualityPair("C1", "S1", 500, 70),
     QualityPair("W1", "W2", 1000, 84)}
    \cup {QualityPair("W1", "W2", 100, n) : n \in {95, 85, 84, 60, 59}}
    \cup {QualityPair("C1", "S1", 100, n) : n \in {95, 85, 84, 60, 59}}

LightningStationLists ==
    {<<>>,
     <<QualityStation("S1", 200, 100)>>,
     QualityPair("C1", "S1", 100, 50)}

\* yearly points: only the observation counts matter to the grading
CloudPointLists ==
    {<<>>,
     <<[obs_count |-> 2000]>>,
     <<[obs_count |-> 1000], [obs_count |-> 1000]>>,
     <<[obs_count |-> 2000], [obs_count |-> 0]>>}

LightningPointLists ==
    {<<>>,
     <<[lightning_obs_count |-> 2000]>>,
     <<[lightning_obs_count |-> 1000], [lightning_obs_count |-> 1000]>>}

QualityArgs ==
    {[cloud_points |-> cp, lightning_points |-> lp, resolution |-> "year",
      cloud_station_data |-> cs, lightning_station_data |-> ls, target |-> q] :
        cp \in CloudPointLists, lp \in LightningPointLists,
        cs \in CloudStationLists, ls \in LightningStationLists, q \in QueryPoints}

\* compute_quality on one argument record
QualityOf(ed, a) ==
    compute_quality(ed, a.cloud_points, a.lightning_points, a.resolution,
                    a.cloud_station_data, a.lightning_station_data, a.target)

InitQuality ==
    /\ inp = <<>>
    /\ out = <<>>
    /\ pc = "ready"
    /\ empty_dim = EmptyDimInitial
    /\ now = 0 /\ upstream = <<>> /\ csv_cache = <<>> /\ result_cache = <<>>
    /\ last = <<>> /\ returned = <<>> /\ nsteps = 0 /\ parsed_csv_cache = <<>>
    /\ PreloadIdle

ComputeQuality ==
    /\ \E a \in QualityArgs : \E r \in {QualityOf(empty_dim, a)} :
        /\ inp' = a
        /\ out' = r.value
        /\ empty_dim' = r.ed
    /\ pc' = "done"
    /\ UNCHANGED <<now, upstream, csv_cache, result_cache, last, returned, nsteps,
                   preloadVars, parsed_csv_cache>>

NextQuality == ComputeQuality

SpecQuality == InitQuality /\ [][NextQuality]_vars

----------------------------------------------------------------------------
(* SpecPreload: preloader.py.  start_preload is called by MaxCallers       *)
(* threads; the pre-loader thread fetches the cloud roster, downloads both *)
(* CSVs of every active cloud station on a pool of MAX_WORKERS workers,     *)
(* aggregates every station at the three resolutions and publishes its     *)
(* progress in _status.  Every access to _status is one step (it happens   *)
(* under _lock); every upstream request and every aggregation is one step. *)
(* The closure variable `done` of _download_csvs is read and written by    *)
(* the workers without a lock, so "done += 1" and the argument of          *)
(* _set("csv_done", done) are separate steps.  Once the pre-loader thread  *)
(* has ended, location requests are answered from the caches it left.      *)

MAX_WORKERS == 4

MaxCallers == 2
Callers == 1..MaxCallers

\* for res in VALID_RESOLUTIONS
ResolutionOrder == <<"day", "month", "year">>

\* how the CSV requests end while the pre-loader runs
PreloadUpstreams ==
    {[k \in Keys |-> "ok"],
     UpstreamInitial,
     [k \in Keys |-> IF k = <<PARAM_CLOUD_COVERAGE, "S1">> THEN "conn_error"
                     ELSE IF k[1] = PARAM_PRESENT_WEATHER THEN "http_error" ELSE "ok"]}

\* the rosters SMHI publishes while the pre-loader runs: one active cloud
\* station with and without a weather-only station beside it, or no active
\* cloud station at all
PreloadRosters ==
    {[cloud |-> <<RosterEntry("S1", TRUE), RosterEntry("C1", FALSE)>>,
      weather |-> <<RosterEntry("W1", TRUE), RosterEntry("S1", TRUE)>>],
     [cloud |-> <<RosterEntry("S1", TRUE)>>,
      weather |-> <<RosterEntry("S1", TRUE)>>],
     [cloud |-> <<RosterEntry("C1", FALSE)>>,
      weather |-> <<RosterEntry("W1", TRUE), RosterEntry("S1", TRUE)>>]}

\* [s["key"] for s in cloud_stations if s.get("active")]
ActiveIds(stations) ==
    LET RECURSIVE Keep(_)
        Keep(i) == IF i > Len(stations) THEN <<>>
                   ELSE (IF stations[i].active THEN <<stations[i].key>> ELSE <<>>)
                        \o Keep(i + 1)
    IN  Keep(1)

\* _download_csvs: the task list, every task still queued
Tasks(station_ids) ==
    [i \in 1..(2 * Len(station_ids)) |->
        [param |-> IF i % 2 = 1 THEN PARAM_CLOUD_COVERAGE ELSE PARAM_PRESENT_WEATHER,
         sid |-> station_ids[(i + 1) \div 2],
         pc |-> "queued", tmp |-> 0, arg |-> 0]]

\* the threads of preloader.py before the first start_preload call, with the
\* rosters SMHI publishes
ThreadInitial(roster) ==
    [roster |-> roster,
     callers |-> [c \in Callers |-> "calling"],
     spawned |-> 0,              \* pre-loader threads started
     pc |-> "none",              \* position of the pre-loader thread
     fetched |-> "pending",      \* how fetch_station_list ended
     active_ids |-> <<>>,
     tasks |-> <<>>,
     done |-> 0,
     station |-> 1,              \* loop indices of _aggregate_stations
     res |-> 1,
     downloads |-> 0,            \* fetch_station_csv calls made by the workers
     aggregations |-> 0,         \* get_station_weather_data calls made
     warnings |-> 0]             \* logger.warning calls

InitPreload ==
    /\ inp = <<>> /\ out = <<>> /\ pc = "preload"
    /\ now = 0
    /\ upstream \in PreloadUpstreams
    /\ csv_cache = [k \in Keys |-> None]
    /\ result_cache = [k \in StationIds \X Resolutions |-> None]
    /\ empty_dim = EmptyDimInitial
    /\ last = [op |-> "none"]
    /\ returned = [k \in StationIds \X Resolutions |-> None]
    /\ nsteps = 0 /\ parsed_csv_cache = <<>>
    /\ status = StatusInitial
    /\ thread \in {ThreadInitial(roster) : roster \in PreloadRosters}

\* what the pre-loader steps leave alone apart from status and thread
PreloadFrame ==
    UNCHANGED <<pureVars, now, upstream, csv_cache, result_cache, empty_dim, last,
                returned, nsteps, parsed_csv_cache>>

\* start_preload, the block under _lock, entered without looking at the state
start_preload_unguarded(st, t) ==
    [status |-> [st EXCEPT !.state = "starting", !.started_at = Some(t)],
     starts |-> TRUE]

\* start_preload, the block under _lock: the status it leaves and whether the
\* caller goes on to start the thread
start_preload_locked(st, t) ==
    IF st.state # "idle" THEN [status |-> st, starts |-> FALSE]
    ELSE [status |-> [st EXCEPT !.state = "starting", !.started_at = Some(t)],
          starts |-> TRUE]

\* start_preload: "with _lock: ..."
StartPreloadEnter(c) ==
    /\ thread.callers[c] = "calling"
    /\ \E r \in {start_preload_locked(status, now)} :
        /\ status' = r.status
        /\ thread' = [thread EXCEPT
                        !.callers[c] = IF r.starts THEN "spawning" ELSE "returned"]
    /\ PreloadFrame

\* start_preload: threading.Thread(target=_run_preload, ...).start()
StartPreloadSpawn(c) ==
    /\ thread.callers[c] = "spawning"
    /\ thread' = [thread EXCEPT !.callers[c] = "returned",
                                !.spawned = @ + 1,
                                !.pc = "fetch_roster"]
    /\ UNCHANGED status
    /\ PreloadFrame

\* _run_preload without its except clause: the exception ends the thread
run_preload_uncaught(t) == [t EXCEPT !.fetched = "raised", !.pc = "crashed"]

\* _run_preload: fetch_station_list raised, control is in the except clause
run_preload_except(t) == [t EXCEPT !.fetched = "raised", !.pc = "set_error"]

\* _run_preload: time.sleep(2), then fetch_station_list(PARAM_CLOUD_COVERAGE)
\* returns the roster or raises
RunFetchRoster ==
    /\ thread.pc = "fetch_roster"
    /\ \/ thread' = [thread EXCEPT !.fetched = "ok",
                                   !.active_ids = ActiveIds(thread.roster.cloud),
                                   !.pc = "set_total"]
       \/ thread' = run_preload_except(thread)
    /\ UNCHANGED status
    /\ PreloadFrame

\* _run_preload: _set("total_stations", len(active_ids))
RunSetTotal ==
    /\ thread.pc = "set_total"
    /\ status' = [status EXCEPT !.total_stations = Len(thread.active_ids)]
    /\ thread' = [thread EXCEPT !.pc = "set_downloading"]
    /\ PreloadFrame

\* _download_csvs: _set("state", "downloading"), the tasks are submitted
RunSetDownloading ==
    /\ thread.pc = "set_downloading"
    /\ status' = [status EXCEPT !.state = "downloading"]
    /\ thread' = [thread EXCEPT !.tasks = Tasks(thread.active_ids),
                                !.done = 0,
                                !.pc = "pool"]
    /\ PreloadFrame

\* _fetch whose failure is not caught: f.result() re-raises it in _run_preload
fetch_failed_uncaught(t, k) ==
    [t EXCEPT !.tasks[k].pc = "finished", !.warnings = @ + 1, !.pc = "set_error"]

\* _fetch: "except Exception" logs the failure and goes on to the counter
fetch_failed(t, k) == [t EXCEPT !.tasks[k].pc = "fetched", !.warnings = @ + 1]

\* the pool: task k is the next one a free worker takes (the tasks are taken
\* in the order submitted, at most MAX_WORKERS are in progress)
TaskReady(k) ==
    /\ thread.pc = "pool"
    /\ k \in 1..Len(thread.tasks)
    /\ thread.tasks[k].pc = "queued"
    /\ \A j \in 1..(k - 1) : thread.tasks[j].pc # "queued"
    /\ Cardinality({j \in 1..Len(thread.tasks) :
                        thread.tasks[j].pc \notin {"queued", "finished"}}) < MAX_WORKERS

\* _fetch: the fetch_station_csv call of some task returns or raises
FetchReturns ==
    \E k \in 1..(2 * Cardinality(StationIds)) :
        /\ TaskReady(k)
        /\ \E t \in {[thread EXCEPT !.downloads = @ + 1]} :
            thread' \in {[t EXCEPT !.tasks[k].pc = "fetched"], fetch_failed(t, k)}

\* _fetch: a free worker takes the next task and calls fetch_station_csv
TaskFetch(k) ==
    /\ TaskReady(k)
    /\ \E r \in {fetch_station_csv(World, thread.tasks[k].param, thread.tasks[k].sid)} :
        /\ csv_cache' = r.w.csv
        /\ \E t \in {[thread EXCEPT !.downloads = @ + 1]} :
            thread' = IF r.status = "ok" THEN [t EXCEPT !.tasks[k].pc = "fetched"]
                      ELSE fetch_failed(t, k)
    /\ UNCHANGED <<pureVars, now, upstream, result_cache, empty_dim, last, returned,
                   nsteps, status, parsed_csv_cache>>

\* _fetch: "done += 1" (load, then store) and "_set("csv_done", done)" (load
\* the argument, then store it under the lock)
TaskCount(k) ==
    /\ thread.pc = "pool"
    /\ k \in 1..Len(thread.tasks)
    /\ \/ /\ thread.tasks[k].pc = "fetched"
          /\ thread' = [thread EXCEPT !.tasks[k].tmp = thread.done,
                                      !.tasks[k].pc = "loaded"]
          /\ UNCHANGED status
       \/ /\ thread.tasks[k].pc = "loaded"
          /\ thread' = [thread EXCEPT !.done = thread.tasks[k].tmp + 1,
                                      !.tasks[k].pc = "stored"]
          /\ UNCHANGED status
       \/ /\ thread.tasks[k].pc = "stored"
          /\ thread' = [thread EXCEPT !.tasks[k].arg = thread.done,
                                      !.tasks[k].pc = "publishing"]
          /\ UNCHANGED status
       \/ /\ thread.tasks[k].pc = "publishing"
          /\ status' = [status EXCEPT !.csv_done = thread.tasks[k].arg]
          /\ thread' = [thread EXCEPT !.tasks[k].pc = "finished"]
    /\ PreloadFrame

\* _download_csvs returns when every future is done;
\* _aggregate_stations: _set("state", "aggregating")
RunSetAggregating ==
    /\ thread.pc = "pool"
    /\ \A k \in 1..Len(thread.tasks) : thread.tasks[k].pc = "finished"
    /\ status' = [status EXCEPT !.state = "aggregating"]
    /\ thread' = [thread EXCEPT !.done = 0, !.station = 1, !.res = 1, !.pc = "aggregate"]
    /\ PreloadFrame

\* _aggregate_stations: the loop after a get_station_weather_data call that
\* returned or (failed) raised into "except Exception"
AfterAggregation(t, failed) ==
    [t EXCEPT !.aggregations = @ + 1,
              !.warnings = IF failed THEN @ + 1 ELSE @,
              !.res = IF @ = Len(ResolutionOrder) THEN 1 ELSE @ + 1,
              !.pc = IF t.res = Len(ResolutionOrder) THEN "set_agg_done" ELSE "aggregate"]

\* _aggregate_stations: the get_station_weather_data call returns or raises
AggregationReturns ==
    /\ thread.pc = "aggregate"
    /\ thread.station <= Len(thread.active_ids)
    /\ thread' \in {AfterAggregation(thread, failed) : failed \in BOOLEAN}

\* _aggregate_stations: get_station_weather_data(sid, res) inside try/except
RunAggregate ==
    /\ thread.pc = "aggregate"
    /\ thread.station <= Len(thread.active_ids)
    /\ \E r \in {get_station_weather_data(World, thread.active_ids[thread.station],
                                          ResolutionOrder[thread.res])} :
        /\ csv_cache' = r.w.csv
        /\ result_cache' = r.w.res
        /\ returned' = r.w.ret
        /\ thread' = AfterAggregation(thread, r.status # "ok")
    /\ UNCHANGED <<pureVars, now, upstream, empty_dim, last, nsteps, status, parsed_csv_cache>>

\* _aggregate_stations: done += 1; _set("agg_done", done)
RunSetAggDone ==
    /\ thread.pc = "set_agg_done"
    /\ status' = [status EXCEPT !.agg_done = thread.done + 1]
    /\ thread' = [thread EXCEPT !.done = @ + 1, !.station = @ + 1, !.pc = "aggregate"]
    /\ PreloadFrame

\* _run_preload: _set("state", "ready"), then _set("finished_at", time.time())
RunFinish ==
    /\ \/ /\ thread.pc = "aggregate"
          /\ thread.station > Len(thread.active_ids)
          /\ status' = [status EXCEPT !.state = "ready"]
          /\ thread' = [thread EXCEPT !.pc = "set_finished"]
       \/ /\ thread.pc = "set_finished"
          /\ status' = [status EXCEPT !.finished_at = Some(now)]
          /\ thread' = [thread EXCEPT !.pc = "ended"]
    /\ PreloadFrame

\* an except clause that puts the state back to "idle" so that a later
\* start_preload call tries again
RunExceptResetting ==
    /\ \/ /\ thread.pc = "set_error"
          /\ status' = [status EXCEPT !.state = "idle"]
          /\ thread' = [thread EXCEPT !.pc = "set_error_text"]
       \/ /\ thread.pc = "set_error_text"
          /\ status' = [status EXCEPT !.error = Some("fetch_station_list failed")]
          /\ thread' = [thread EXCEPT !.pc = "ended"]
    /\ PreloadFrame

\* _run_preload, except clause: _set("state", "error"), then _set("error", str(e))
RunExcept ==
    /\ \/ /\ thread.pc = "set_error"
          /\ status' = [status EXCEPT !.state = "error"]
          /\ thread' = [thread EXCEPT !.pc = "set_error_text"]
       \/ /\ thread.pc = "set_error_text"
          /\ status' = [status EXCEPT !.error = Some("fetch_station_list failed")]
          /\ thread' = [thread EXCEPT !.pc = "ended"]
    /\ PreloadFrame

\* GET /api/location-weather once the pre-loader thread has ended, with the
\* rosters the pre-loader saw
PreloadedLocationCall ==
    /\ thread.pc = "ended"
    /\ last.op = "none"
    /\ \E resolution \in {"month", "year"} :
        \E r \in {get_location_weather(World, "Q1", thread.roster, resolution)} :
            /\ last' = [op |-> "location",
                        roster |-> thread.roster,
                        resolution |-> resolution,
                        path |-> r.path,
                        cloud_selected |-> r.cloud_selected,
                        lightning_selected |-> r.lightning_selected,
                        requests |-> r.w.req,
                        aggregations |-> r.w.agg,
                        at |-> now]
            /\ Commit(r.w)

\* time passes between the end of the pre-loader and the request
PreloadedTick ==
    /\ thread.pc = "ended"
    /\ last.op = "none"
    /\ Tick

\* the steps of the pre-loader thread and of its workers that touch memory only
PreloaderBookkeeping ==
    \/ RunFetchRoster \/ RunSetTotal \/ RunSetDownloading
    \/ \E k \in 1..(2 * Cardinality(StationIds)) : TaskCount(k)
    \/ RunSetAggregating \/ RunSetAggDone \/ RunFinish \/ RunExcept

NextPreload ==
    \/ \E c \in Callers : StartPreloadEnter(c) \/ StartPreloadSpawn(c)
    \/ PreloaderBookkeeping
    \/ \E k \in 1..(2 * Cardinality(StationIds)) : TaskFetch(k)
    \/ RunAggregate
    \/ PreloadedLocationCall
    \/ PreloadedTick

SpecPreload == InitPreload /\ [][NextPreload]_vars

\* Every thread that can take a step is scheduled again, and every upstream
\* request and every aggregation returns or raises.
FairSpecPreload ==
    /\ SpecPreload
    /\ WF_vars(PreloaderBookkeeping)
    /\ WF_thread(FetchReturns)
    /\ WF_thread(AggregationReturns)
    /\ \A c \in Callers : WF_vars(StartPreloadEnter(c) \/ StartPreloadSpawn(c))

----------------------------------------------------------------------------
(* SpecCsv: fetch_station_csv called on its own, for any parameter and     *)
(* station, while the clock advances and upstream availability changes.    *)

MaxFetches == 4

\* fetch_station_csv(parameter_id, station_id) called at time `now`
FetchCsv ==
    /\ nsteps < MaxFetches
    /\ \E k \in Keys :
        \E r \in {fetch_station_csv(World, k[1], k[2])} :
            /\ last' = [op |-> "csv",
                        key |-> k,
                        status |-> r.status,
                        text |-> r.text,
                        requests |-> r.w.req,
                        file_before |-> csv_cache[k],
                        others_untouched |-> \A j \in Keys \ {k} : r.w.csv[j] = csv_cache[j],
                        upstream |-> upstream[k],
                        at |-> now]
            /\ Commit(r.w)

NextCsv == FetchCsv \/ Tick \/ UpstreamChange

SpecCsv == Init /\ [][NextCsv]_vars

----------------------------------------------------------------------------
(* SpecPrefetch: one get_location_weather call with the worker pool of its *)
(* step 3 spelled out.  `thread` is the request thread: its arguments, the *)
(* tasks submitted to the pool and where each of them stands.              *)

PREFETCH_WORKERS == 3

\* step 3: tasks, (PARAM_CLOUD_COVERAGE, sid) and (PARAM_PRESENT_WEATHER, sid)
\* for every sid of all_ids, in the order the set yields its elements
RECURSIVE PrefetchTasks(_)
PrefetchTasks(all_ids) ==
    IF all_ids = {} THEN <<>>
    ELSE LET sid == CHOOSE x \in all_ids : TRUE
         IN  <<[param |-> PARAM_CLOUD_COVERAGE, sid |-> sid, pc |-> "queued"],
               [param |-> PARAM_PRESENT_WEATHER, sid |-> sid, pc |-> "queued"]>>
             \o PrefetchTasks(all_ids \ {sid})

\* a request thread that has just entered get_location_weather
RequestInitial(req) ==
    [pc |-> "arrived", q |-> req[1], roster |-> req[2], resolution |-> req[3],
     tasks |-> <<>>,
     req |-> [k \in Keys |-> 0],    \* upstream requests sent by the call so far
     failed |-> 0]                  \* exceptions swallowed by _fetch

InitPrefetch ==
    /\ inp = <<>> /\ out = <<>> /\ pc = "prefetch"
    /\ now = 0
    /\ upstream \in PreloadUpstreams
    /\ csv_cache = [k \in Keys |-> None]
    /\ result_cache = [k \in StationIds \X Resolutions |-> None]
    /\ empty_dim = EmptyDimInitial
    /\ last = [op |-> "none"]
    /\ returned = [k \in StationIds \X Resolutions |-> None]
    /\ nsteps = 0 /\ parsed_csv_cache = <<>>
    /\ status = StatusInitial
    /\ thread \in {RequestInitial(req) : req \in LocationRequests}

\* steps 1 to 3 up to pool.submit: discovery, selection, all_ids, tasks
PrefetchSubmit ==
    /\ thread.pc = "arrived"
    /\ \E c \in {Step2Selection(Step1Discovery(World, thread.q, thread.roster,
                                               NormalizeResolution(thread.resolution)))} :
        thread' = [thread EXCEPT
                     !.pc = "prefetch",
                     !.tasks = IF c.path # "running" THEN <<>>
                               ELSE PrefetchTasks(
                                        Uncached(c.w, c.cloud_selected, c.resolution)
                                        \cup Uncached(c.w, c.lightning_selected,
                                                      c.resolution))]
    /\ UNCHANGED <<pureVars, now, upstream, csv_cache, result_cache, empty_dim, last,
                   returned, nsteps, status, parsed_csv_cache>>

\* a pool that starts a worker for every task submitted
pool_without_bound(tasks) == TRUE

\* ThreadPoolExecutor(max_workers=3): a queued task starts only while fewer
\* than three are running
pool_has_idle_worker(tasks) ==
    Cardinality({j \in 1..Len(tasks) : tasks[j].pc = "running"}) < PREFETCH_WORKERS

\* a worker takes the oldest queued task and calls _fetch(param_id, sid)
PrefetchTaskStart(k) ==
    /\ thread.pc = "prefetch"
    /\ k \in 1..Len(thread.tasks)
    /\ thread.tasks[k].pc = "queued"
    /\ \A j \in 1..(k - 1) : thread.tasks[j].pc # "queued"
    /\ pool_has_idle_worker(thread.tasks)
    /\ thread' = [thread EXCEPT !.tasks[k].pc = "running"]
    /\ UNCHANGED <<pureVars, now, upstream, csv_cache, result_cache, empty_dim, last,
                   returned, nsteps, status, parsed_csv_cache>>

\* _fetch: fetch_station_csv returns, or raises into "except Exception: pass"
PrefetchTaskEnd(k) ==
    /\ thread.pc = "prefetch"
    /\ k \in 1..Len(thread.tasks)
    /\ thread.tasks[k].pc = "running"
    /\ \E r \in {fetch_station_csv(World, thread.tasks[k].param, thread.tasks[k].sid)} :
        /\ csv_cache' = r.w.csv
        /\ thread' = [thread EXCEPT
                        !.tasks[k].pc = "finished",
                        !.req = [j \in Keys |-> thread.req[j] + r.w.req[j]],
                        !.failed = IF r.status = "ok" THEN @ ELSE @ + 1]
    /\ UNCHANGED <<pureVars, now, upstream, result_cache, empty_dim, last, returned,
                   nsteps, status, parsed_csv_cache>>

\* the "with" block ends when every task has finished; steps 4 to 7 follow
\* and the call returns
PrefetchJoin ==
    /\ thread.pc = "prefetch"
    /\ \A k \in 1..Len(thread.tasks) : thread.tasks[k].pc = "finished"
    /\ \E c \in {Step2Selection(Step1Discovery([World EXCEPT !.req = thread.req],
                                               thread.q, thread.roster,
                                               NormalizeResolution(thread.resolution)))} :
        \E r \in {LocationOutcome(Steps4To7(c))} :
            /\ last' = [op |-> "location",
                        path |-> r.path,
                        cloud_selected |-> r.cloud_selected,
                        lightning_selected |-> r.lightning_selected,
                        requests |-> r.w.req,
                        aggregations |-> r.w.agg,
                        tasks |-> Len(thread.tasks),
                        failed |-> thread.failed]
            /\ csv_cache' = r.w.csv
            /\ result_cache' = r.w.res
            /\ empty_dim' = r.w.ed
            /\ returned' = r.w.ret
    /\ thread' = [thread EXCEPT !.pc = "returned"]
    /\ UNCHANGED <<pureVars, now, upstream, nsteps, status, parsed_csv_cache>>

NextPrefetch ==
    \/ PrefetchSubmit
    \/ \E k \in 1..(2 * Cardinality(StationIds)) : PrefetchTaskStart(k) \/ PrefetchTaskEnd(k)
    \/ PrefetchJoin

SpecPrefetch == InitPrefetch /\ [][NextPrefetch]_vars

----------------------------------------------------------------------------
(* SpecLocks: the three mutexes (smhi_client._station_list_lock,           *)
(* smhi_client._parsed_csv_lock, preloader._lock) and the code that runs   *)
(* under them.  Each function is the sequence of its steps: acquiring or   *)
(* releasing a mutex, touching memory ("mem"), or doing an upstream        *)
(* request or a disk read/write ("io").  `thread` gives, for every thread, *)
(* the function it is in and the step it is about to take.                 *)

Locks == {"station_list", "parsed_csv", "status"}

Acquire(l) == [kind |-> "acquire", lock |-> l]
Release(l) == [kind |-> "release", lock |-> l]
Mem == [kind |-> "mem", lock |-> "none"]
Io == [kind |-> "io", lock |-> "none"]

\* a fetch_station_list that keeps the mutex while the request is under way
fetch_station_list_locked_request(hit) ==
    IF hit THEN <<Acquire("station_list"), Mem, Release("station_list")>>
    ELSE <<Acquire("station_list"), Mem, Io, Mem, Release("station_list")>>

\* fetch_station_list: look the roster up under the lock (a fresh entry is
\* returned from inside the with block), request it with the lock released,
\* store it under the lock
fetch_station_list_steps(hit) ==
    IF hit THEN <<Acquire("station_list"), Mem, Release("station_list")>>
    ELSE <<Acquire("station_list"), Mem, Release("station_list"),
           Io,
           Acquire("station_list"), Mem, Release("station_list")>>

\* fetch_and_parse_csv: look the rows up under the lock, fetch_station_csv and
\* parse_smhi_csv with the lock released, evict and insert under the lock
fetch_and_parse_csv_steps(hit) ==
    IF hit THEN <<Acquire("parsed_csv"), Mem, Release("parsed_csv")>>
    ELSE <<Acquire("parsed_csv"), Mem, Release("parsed_csv"),
           Io, Mem,
           Acquire("parsed_csv"), Mem, Mem, Release("parsed_csv")>>

\* get_preload_status: dict(_status) under the lock
get_preload_status_steps == <<Acquire("status"), Mem, Release("status")>>

\* _set(key, value): one store under the lock
set_steps == <<Acquire("status"), Mem, Release("status")>>

\* start_preload: the state test and, when idle, the two stores under the
\* lock; the thread is started with the lock released
start_preload_steps(idle) ==
    IF idle THEN <<Acquire("status"), Mem, Mem, Mem, Release("status"), Mem>>
    ELSE <<Acquire("status"), Mem, Release("status")>>

\* fetch_station_csv, read_result_cache, write_result_cache: disk and
\* upstream only, no mutex
unlocked_io_steps == <<Io>>

LockThreads == {"request1", "request2", "preloader", "worker"}

\* the functions each thread calls: request threads go through
\* get_nearby_stations, the result cache and the CSV cache, and may poll or
\* start the pre-loader; the pre-loader thread fetches the roster, publishes
\* progress and aggregates; its workers download and publish progress
CallsOf(t) ==
    IF t \in {"request1", "request2"}
    THEN {fetch_station_list_steps(TRUE), fetch_station_list_steps(FALSE),
          fetch_and_parse_csv_steps(TRUE), fetch_and_parse_csv_steps(FALSE),
          get_preload_status_steps,
          start_preload_steps(TRUE), start_preload_steps(FALSE),
          unlocked_io_steps}
    ELSE IF t = "preloader"
    THEN {fetch_station_list_steps(TRUE), fetch_station_list_steps(FALSE),
          set_steps, unlocked_io_steps}
    ELSE {unlocked_io_steps, set_steps}

\* the mutexes thread t holds: acquired and not yet released in the steps
\* it has taken
Held(t) ==
    LET steps == thread[t].steps
        taken == 1..(thread[t].pc - 1)
    IN  {l \in Locks :
            \E i \in taken :
                /\ steps[i] = Acquire(l)
                /\ \A j \in taken : j > i => steps[j] # Release(l)}

\* the step thread t is about to take
NextStep(t) ==
    IF thread[t].pc <= Len(thread[t].steps)
    THEN thread[t].steps[thread[t].pc]
    ELSE [kind |-> "return", lock |-> "none"]

InitLocks ==
    /\ inp = <<>> /\ out = <<>> /\ pc = "locks"
    /\ empty_dim = <<>>
    /\ now = 0 /\ upstream = <<>> /\ csv_cache = <<>> /\ result_cache = <<>>
    /\ last = <<>> /\ returned = <<>> /\ nsteps = 0 /\ parsed_csv_cache = <<>>
    /\ status = StatusInitial
    /\ thread = [t \in LockThreads |-> [steps |-> <<>>, pc |-> 1]]

LocksFrame == UNCHANGED <<pureVars, now, upstream, csv_cache, result_cache, empty_dim, last,
                          returned, nsteps, status, parsed_csv_cache>>

\* thread t calls one of its functions
LockCall(t) ==
    /\ thread[t].steps = <<>>
    /\ \E steps \in CallsOf(t) : thread' = [thread EXCEPT ![t] = [steps |-> steps, pc |-> 1]]
    /\ LocksFrame

\* threading.Lock.acquire: blocks while any thread, the caller included,
\* holds the mutex
LockAcquire(t) ==
    /\ NextStep(t).kind = "acquire"
    /\ \A u \in LockThreads : NextStep(t).lock \notin Held(u)
    /\ thread' = [thread EXCEPT ![t].pc = @ + 1]
    /\ LocksFrame

\* the with block is left
LockRelease(t) ==
    /\ NextStep(t).kind = "release"
    /\ thread' = [thread EXCEPT ![t].pc = @ + 1]
    /\ LocksFrame

\* a step that touches memory, the upstream or the disk
LockWork(t) ==
    /\ NextStep(t).kind \in {"mem", "io"}
    /\ thread' = [thread EXCEPT ![t].pc = @ + 1]
    /\ LocksFrame

\* the function returns
LockReturn(t) ==
    /\ thread[t].steps # <<>>
    /\ NextStep(t).kind = "return"
    /\ thread' = [thread EXCEPT ![t] = [steps |-> <<>>, pc |-> 1]]
    /\ LocksFrame

NextLocks ==
    \E t \in LockThreads :
        LockCall(t) \/ LockAcquire(t) \/ LockRelease(t) \/ LockWork(t) \/ LockReturn(t)

SpecLocks == InitLocks /\ [][NextLocks]_vars

----------------------------------------------------------------------------
(* SpecResultFile: a request thread and the pre-loader thread run          *)
(* get_station_weather_data for the same station and resolution while a    *)
(* third thread reads the result cache.  Path.write_text opens the file    *)
(* for writing, which truncates it, and then writes the text from the      *)
(* writer's own file offset, in one write call or in several.  Here        *)
(* result_cache holds, for the one file, its mtime and the chunks of text  *)
(* it contains.                                                            *)

MaxChunks == 2

Writers == {"request", "preloader"}

ResultFileKey == <<"S1", "month">>

\* the i-th of the MaxChunks pieces of the text json.dumps(data)
FileChunk(data, i) == [text |-> JsonDumps(data), part |-> i]

\* a stretch of the file that no write call has filled
FileHole == [text |-> <<>>, part |-> 0]

\* the text is one whole JSON document
IsDocument(chunks) ==
    /\ Len(chunks) = MaxChunks
    /\ \A i \in 1..MaxChunks : chunks[i].part = i /\ chunks[i].text = chunks[1].text

\* read_result_cache on the file as it is right now: None for a missing or
\* stale file, the decoded document, or the JSONDecodeError json.loads raises
read_result_file(file) ==
    IF ~is_cache_fresh(file) THEN [kind |-> "null", value |-> <<>>]
    ELSE IF IsDocument(Val(file).chunks)
    THEN [kind |-> "document", value |-> JsonLoads(Val(file).chunks[1].text)]
    ELSE [kind |-> "raised", value |-> <<>>]

\* an upstream where the cloud CSV of the station is not available yet
UpstreamBeforeCloudCsv ==
    [k \in Keys |-> IF k = <<PARAM_CLOUD_COVERAGE, "S1">> THEN "http_error" ELSE "ok"]

InitResultFile ==
    /\ inp = <<>> /\ out = <<>> /\ pc = "result_file"
    /\ now = 0
    /\ upstream \in {[k \in Keys |-> "ok"], UpstreamBeforeCloudCsv}
    /\ csv_cache = [k \in Keys |-> None]
    /\ result_cache = [k \in {ResultFileKey} |-> None]
    /\ empty_dim = EmptyDimInitial
    /\ last = [op |-> "none"]
    /\ returned = [k \in StationIds \X Resolutions |-> None]
    /\ nsteps = 0 /\ parsed_csv_cache = <<>>
    /\ status = StatusInitial
    /\ thread = [w \in Writers |-> [pc |-> "read", result |-> <<>>, offset |-> 0]]

\* the world as get_station_weather_data sees it after its result-cache miss
WorldAfterMiss == [World EXCEPT !.res = [k \in StationIds \X Resolutions |-> None]]

\* get_station_weather_data: cached = read_result_cache(station_id, resolution)
WriterRead(w) ==
    /\ thread[w].pc = "read"
    /\ \E r \in {read_result_file(result_cache[ResultFileKey])} :
        thread' = [thread EXCEPT
                     ![w].pc = CASE r.kind = "null" -> "aggregate"
                                 [] r.kind = "document" -> "returned"
                                 [] OTHER -> "raised",
                     ![w].result = r.value]
    /\ UNCHANGED <<pureVars, now, upstream, csv_cache, result_cache, empty_dim, last,
                   returned, nsteps, status, parsed_csv_cache>>

\* get_station_weather_data: _fetch_raw_observations and the aggregator
WriterAggregate(w) ==
    /\ thread[w].pc = "aggregate"
    /\ \E r \in {StationMiss(ResultFileKey[1], ResultFileKey[2],
                             fetch_raw_observations(WorldAfterMiss, ResultFileKey[1]))} :
        /\ csv_cache' = r.w.csv
        /\ thread' = [thread EXCEPT ![w].pc = IF r.status = "ok" THEN "open" ELSE "raised",
                                    ![w].result = r.value]
    /\ UNCHANGED <<pureVars, now, upstream, result_cache, empty_dim, last, returned,
                   nsteps, status, parsed_csv_cache>>

\* write_result_cache: write_text opens the file with mode "w"
WriterOpen(w) ==
    /\ thread[w].pc = "open"
    /\ result_cache' = [result_cache EXCEPT
                          ![ResultFileKey] = Some([mtime |-> now, chunks |-> <<>>])]
    /\ thread' = [thread EXCEPT ![w].pc = "write", ![w].offset = 0]
    /\ UNCHANGED <<pureVars, now, upstream, csv_cache, empty_dim, last, returned,
                   nsteps, status, parsed_csv_cache>>

\* the file after the next chunk of data went in at the writer's offset
ChunkWritten(chunks, offset, data) ==
    [i \in 1..Max2(Len(chunks), offset + 1) |->
        IF i = offset + 1 THEN FileChunk(data, i)
        ELSE IF i <= Len(chunks) THEN chunks[i]
        ELSE FileHole]

\* write_result_cache: one write call of write_text; after the last one the
\* file is closed and get_station_weather_data returns the result
WriterWrite(w) ==
    /\ thread[w].pc = "write"
    /\ result_cache' = [result_cache EXCEPT
                          ![ResultFileKey] =
                              Some([mtime |-> now,
                                    chunks |-> ChunkWritten(Val(@).chunks, thread[w].offset,
                                                            thread[w].result)])]
    /\ thread' = [thread EXCEPT
                    ![w].offset = @ + 1,
                    ![w].pc = IF thread[w].offset + 1 = MaxChunks THEN "returned" ELSE "write"]
    /\ UNCHANGED <<pureVars, now, upstream, csv_cache, empty_dim, last, returned,
                   nsteps, status, parsed_csv_cache>>

\* another request calls read_result_cache(station_id, resolution)
ReaderRead ==
    /\ \E r \in {read_result_file(result_cache[ResultFileKey])} :
        last' = [op |-> "read", kind |-> r.kind, value |-> r.value]
    /\ UNCHANGED <<pureVars, now, upstream, csv_cache, result_cache, empty_dim, returned,
                   nsteps, status, thread, parsed_csv_cache>>

\* SMHI publishes the cloud CSV of the station
CloudCsvAppears ==
    /\ upstream = UpstreamBeforeCloudCsv
    /\ upstream' = [k \in Keys |-> "ok"]
    /\ UNCHANGED <<pureVars, now, csv_cache, result_cache, empty_dim, last, returned,
                   nsteps, status, thread, parsed_csv_cache>>

NextResultFile ==
    \/ \E w \in Writers : WriterRead(w) \/ WriterAggregate(w) \/ WriterOpen(w) \/ WriterWrite(w)
    \/ ReaderRead
    \/ CloudCsvAppears

SpecResultFile == InitResultFile /\ [][NextResultFile]_vars

----------------------------------------------------------------------------
(* SpecParsed: threads calling fetch_and_parse_csv.  parsed_csv_cache is   *)
(* the dict in insertion order, each entry a key and the timestamp stored  *)
(* with its rows.  The process has been up for a while: the dict already   *)
(* holds 29 entries, filled in by earlier calls.                           *)

PARSED_CSV_MAX_ENTRIES == 30

MaxParsedCalls == 3

ParsedCallers == {"t1", "t2"}

\* (parameter_id, station_id) for sixteen stations
ParsedKeys == Params \X (1..16)

\* position of key in the dict, 0 when it is not a key of the dict
ParsedIndex(cache, key) ==
    IF \E i \in 1..Len(cache) : cache[i].key = key
    THEN CHOOSE i \in 1..Len(cache) : cache[i].key = key
    ELSE 0

\* "if key in _parsed_csv_cache: ... if now - ts < CACHE_MAX_AGE_SECONDS"
parsed_cache_hit(cache, key, t) ==
    /\ ParsedIndex(cache, key) # 0
    /\ t - cache[ParsedIndex(cache, key)].ts < CACHE_MAX_AGE_SECONDS

\* min(_parsed_csv_cache, key=lambda k: _parsed_csv_cache[k][0]): the first
\* key, in insertion order, among those with the smallest timestamp
OldestIndex(cache) ==
    CHOOSE i \in 1..Len(cache) :
        \A j \in 1..Len(cache) :
            cache[i].ts < cache[j].ts \/ (cache[i].ts = cache[j].ts /\ i <= j)

RemoveAt(cache, i) == SubSeq(cache, 1, i - 1) \o SubSeq(cache, i + 1, Len(cache))

\* d[key] = value: a new key goes last, a key of the dict keeps its place
DictSet(cache, key, t) ==
    IF ParsedIndex(cache, key) = 0 THEN Append(cache, [key |-> key, ts |-> t])
    ELSE [cache EXCEPT ![ParsedIndex(cache, key)].ts = t]

\* a store that makes room whenever the dict is full, also for a key that
\* is already in it
parsed_cache_store_always_evicting(cache, key, t) ==
    IF Len(cache) >= PARSED_CSV_MAX_ENTRIES
    THEN DictSet(RemoveAt(cache, OldestIndex(cache)), key, t)
    ELSE DictSet(cache, key, t)

\* fetch_and_parse_csv, second block under _parsed_csv_lock: evict the
\* oldest entry if the dict is full and key is new, then store (now, rows)
parsed_cache_store(cache, key, t) ==
    IF Len(cache) >= PARSED_CSV_MAX_ENTRIES /\ ParsedIndex(cache, key) = 0
    THEN DictSet(RemoveAt(cache, OldestIndex(cache)), key, t)
    ELSE DictSet(cache, key, t)

\* the first n keys, in some order
RECURSIVE FirstKeys(_, _)
FirstKeys(keys, n) ==
    IF n = 0 THEN <<>>
    ELSE LET k == CHOOSE x \in keys : \A y \in keys : x[1] < y[1] \/ (x[1] = y[1] /\ x[2] <= y[2])
         IN  <<k>> \o FirstKeys(keys \ {k}, n - 1)

\* the dict after 29 earlier calls: the third entry was stored a week ago and
\* has gone stale, the first was refreshed last, the others were stored one
\* second apart
ParsedCacheInitial ==
    LET keys == FirstKeys(ParsedKeys, PARSED_CSV_MAX_ENTRIES - 1)
    IN  [i \in 1..Len(keys) |->
            [key |-> keys[i],
             ts |-> IF i = 3 THEN 10
                    ELSE IF i = 1 THEN CACHE_MAX_AGE_SECONDS + 9
                    ELSE CACHE_MAX_AGE_SECONDS - 30 + i]]

\* the keys the callers ask for: the refreshed entry, the stale one, another
\* cached one, and three that are not cached
ParsedRequests ==
    {ParsedCacheInitial[1].key, ParsedCacheInitial[3].key, ParsedCacheInitial[4].key}
    \cup (ParsedKeys \ {ParsedCacheInitial[i].key : i \in 1..Len(ParsedCacheInitial)})

InitParsed ==
    /\ inp = <<>> /\ out = <<>> /\ pc = "parsed"
    /\ empty_dim = <<>>
    /\ now = CACHE_MAX_AGE_SECONDS + 10
    /\ upstream = <<>> /\ csv_cache = <<>> /\ result_cache = <<>>
    /\ last = [op |-> "none"] /\ returned = <<>> /\ nsteps = 0
    /\ status = StatusInitial
    /\ thread = [t \in ParsedCallers |-> [pc |-> "idle", key |-> <<>>, now |-> 0]]
    /\ parsed_csv_cache = ParsedCacheInitial

ParsedFrame == UNCHANGED <<pureVars, upstream, csv_cache, result_cache, empty_dim, returned,
                           status>>

\* fetch_and_parse_csv(parameter_id, station_id) is called: now = time.time()
ParsedCall(t) ==
    /\ thread[t].pc = "idle"
    /\ nsteps < MaxParsedCalls
    /\ \E key \in ParsedRequests, dt \in {0, 1} :
        /\ now' = now + dt
        /\ thread' = [thread EXCEPT ![t] = [pc |-> "lookup", key |-> key, now |-> now + dt]]
    /\ nsteps' = nsteps + 1
    /\ UNCHANGED <<last, parsed_csv_cache>>
    /\ ParsedFrame

\* first block under the lock: a fresh entry is returned
ParsedLookup(t) ==
    /\ thread[t].pc = "lookup"
    /\ thread' = [thread EXCEPT
                    ![t].pc = IF parsed_cache_hit(parsed_csv_cache, thread[t].key,
                                                  thread[t].now)
                              THEN "idle" ELSE "fetch"]
    /\ UNCHANGED <<now, nsteps, last, parsed_csv_cache>>
    /\ ParsedFrame

\* fetch_station_csv and parse_smhi_csv with the lock released: the rows
\* arrive, or fetch_station_csv raises and the call ends
ParsedFetch(t) ==
    /\ thread[t].pc = "fetch"
    /\ \E raised \in BOOLEAN :
        thread' = [thread EXCEPT ![t].pc = IF raised THEN "idle" ELSE "store"]
    /\ UNCHANGED <<now, nsteps, last, parsed_csv_cache>>
    /\ ParsedFrame

\* second block under the lock
ParsedStore(t) ==
    /\ thread[t].pc = "store"
    /\ parsed_csv_cache' = parsed_cache_store(parsed_csv_cache, thread[t].key, thread[t].now)
    /\ last' = [op |-> "store", key |-> thread[t].key, ts |-> thread[t].now,
                before |-> parsed_csv_cache]
    /\ thread' = [thread EXCEPT ![t].pc = "idle"]
    /\ UNCHANGED <<now, nsteps>>
    /\ ParsedFrame

NextParsed ==
    \E t \in ParsedCallers : ParsedCall(t) \/ ParsedLookup(t) \/ ParsedFetch(t) \/ ParsedStore(t)

SpecParsed == InitParsed /\ [][NextParsed]_vars

----------------------------------------------------------------------------
(* Properties of the engine (Spec).  `last` describes the most recent      *)
(* request, and no step other than a request touches the caches, so in     *)
(* every state the caches are as that request left them.                   *)

\* a cache file of that age is younger than seven days
C_Young(age) == ~IsNone(age) /\ Val(age) < 7 * 24 * 60 * 60

\* C1: a get_station_weather_data(s, r) call that finds the result-cache
\* entry of an earlier successful call younger than seven days returns the
\* payload that call returned, asks upstream for nothing and aggregates
\* nothing.
C1_CacheHitIdentical ==
    (/\ last.op = "station"
     /\ ~IsNone(last.previous)
     /\ C_Young(last.entry_age))
    => /\ last.status = "ok"
       /\ last.value = Val(last.previous)
       /\ \A k \in Keys : last.requests[k] = 0
       /\ last.aggregations = 0

\* a second call one second before the entry turns seven days old
C1_Witness ==
    /\ last.op = "station"
    /\ ~IsNone(last.previous)
    /\ last.entry_age = Some(7 * 24 * 60 * 60 - 1)
    /\ last.value = Val(last.previous)
    /\ Len(last.value.points) > 0

\* the active stations of a roster
C_Active(roster) == {roster[i].key : i \in {i \in 1..Len(roster) : roster[i].active}}

\* station s cannot be aggregated by the last location request: no result
\* and no cloud CSV is cached for it and the cloud CSV request fails with
\* something other than an HTTP error
C2_Throws(s) ==
    /\ IsNone(last.entry_age[s])
    /\ IsNone(last.csv_age[<<PARAM_CLOUD_COVERAGE, s>>])
    /\ last.upstream[<<PARAM_CLOUD_COVERAGE, s>>] = "conn_error"

C2_EmptyFactor(f) == f.level = "poor" /\ f.value = 0

\* C2: when there is no cloud candidate, or the aggregation of every cloud
\* candidate throws, get_location_weather returns the empty result:
\* has_lightning_data false, no points, no stations, and the empty-quality
\* record with level low.
C2_EmptyResultShape ==
    (/\ last.op = "location"
     /\ \A s \in C_Active(last.roster.cloud) : C2_Throws(s))
    => /\ DOMAIN last.value = {"has_lightning_data", "resolution", "points",
                               "cloud_stations", "lightning_stations", "quality"}
       /\ last.value.has_lightning_data = FALSE
       /\ last.value.resolution = last.resolution
       /\ last.value.points = <<>>
       /\ last.value.cloud_stations = <<>>
       /\ last.value.lightning_stations = <<>>
       /\ last.value.quality.level = "low"
       /\ \A dim \in {"cloud", "lightning"} :
            /\ last.value.quality[dim] = empty_dim
            /\ C2_EmptyFactor(last.value.quality[dim].station_coverage)
            /\ C2_EmptyFactor(last.value.quality[dim].historical_data)

\* every cloud candidate threw while a lightning station was aggregated
C2_Witness ==
    /\ last.op = "location"
    /\ C_Active(last.roster.cloud) # {}
    /\ \A s \in C_Active(last.roster.cloud) : C2_Throws(s)
    /\ last.lightning_data # <<>>
    /\ last.value.points = <<>>

\* how the CSV fetch for parameter p ends in the last station request
C3_Fetch(p) ==
    IF C_Young(last.csv_age[<<p, last.station_id>>]) THEN "cached"
    ELSE last.upstream[<<p, last.station_id>>]

C3_Miss == last.op = "station" /\ ~C_Young(last.entry_age)

C3_Entry == result_cache[<<last.station_id, last.resolution>>]

\* the request returned a result and left it in the result cache
C3_ReturnedAndWritten ==
    /\ last.status = "ok"
    /\ <<last.station_id, last.resolution>> \in last.written
    /\ ~IsNone(C3_Entry)
    /\ Val(C3_Entry).mtime = last.at
    /\ JsonLoads(Val(C3_Entry).text) = last.value

\* C3: on a result-cache miss, an HTTP error for the cloud CSV gives a
\* result whose cloud averages are all null with obs_count 0, an HTTP error
\* for the present-weather CSV gives has_lightning_data false and all
\* lightning fields null, and either result is written to the result cache;
\* any other failure propagates and no result-cache entry is written.
C3_HttpErrorIsNoData ==
    /\ (C3_Miss /\ C3_Fetch(PARAM_CLOUD_COVERAGE) = "http_error"
               /\ C3_Fetch(PARAM_PRESENT_WEATHER) # "conn_error")
        => /\ C3_ReturnedAndWritten
           /\ \A i \in 1..Len(last.value.points) :
                /\ IsNone(last.value.points[i].cloud_coverage_avg)
                /\ last.value.points[i].obs_count = 0
    /\ (C3_Miss /\ C3_Fetch(PARAM_PRESENT_WEATHER) = "http_error"
               /\ C3_Fetch(PARAM_CLOUD_COVERAGE) # "conn_error")
        => /\ C3_ReturnedAndWritten
           /\ last.value.has_lightning_data = FALSE
           /\ \A i \in 1..Len(last.value.points) :
                /\ IsNone(last.value.points[i].lightning_probability)
                /\ IsNone(last.value.points[i].lightning_lower)
                /\ IsNone(last.value.points[i].lightning_upper)
    /\ (C3_Miss /\ \E p \in Params : C3_Fetch(p) = "conn_error")
        => /\ last.status = "conn_error"
           /\ last.written = {}
           /\ result_cache[<<last.station_id, last.resolution>>] = last.entry_before

\* the present-weather CSV of a station with cloud data answers with an
\* HTTP error
C3_Witness ==
    /\ C3_Miss
    /\ C3_Fetch(PARAM_PRESENT_WEATHER) = "http_error"
    /\ C3_Fetch(PARAM_CLOUD_COVERAGE) = "ok"
    /\ last.status = "ok"
    /\ \E i \in 1..Len(last.value.points) : ~IsNone(last.value.points[i].cloud_coverage_avg)

\* C4: when the cloud pipeline ends with a station and the lightning
\* pipeline with none, get_location_weather returns has_lightning_data
\* false, no lightning stations, null lightning fields at every point, and
\* an overall quality level of low or medium.
C4_NoLightningStations ==
    (/\ last.op = "location"
     /\ last.cloud_data # <<>>
     /\ last.lightning_data = <<>>)
    => /\ last.value.has_lightning_data = FALSE
       /\ last.value.lightning_stations = <<>>
       /\ last.value.cloud_stations # <<>>
       /\ \A i \in 1..Len(last.value.points) :
            /\ IsNone(last.value.points[i].lightning_probability)
            /\ IsNone(last.value.points[i].lightning_lower)
            /\ IsNone(last.value.points[i].lightning_upper)
       /\ last.value.quality.level \in {"low", "medium"}

\* the cloud dimension alone would grade high, and the level is medium
C4_Witness ==
    /\ last.op = "location"
    /\ last.cloud_data # <<>>
    /\ last.lightning_data = <<>>
    /\ last.value.quality.cloud.station_coverage.level = "good"
    /\ last.value.quality.cloud.historical_data.level = "good"
    /\ last.value.quality.level = "medium"
    /\ Len(last.value.points) = 12

C5_Ids(stations) == {stations[i].id : i \in 1..Len(stations)}

\* C5: every station of cloud_stations is an active station of the cloud
\* roster and every station of lightning_stations is an active station of
\* the present-weather roster.
C5_IndependentPools ==
    last.op = "location"
    => /\ C5_Ids(last.value.cloud_stations) \subseteq C_Active(last.roster.cloud)
       /\ C5_Ids(last.value.lightning_stations) \subseteq C_Active(last.roster.weather)

\* a cloud-only station and a weather-only station each appear in their list
C5_Witness ==
    /\ last.op = "location"
    /\ \E s \in C5_Ids(last.value.cloud_stations) : s \notin C_Active(last.roster.weather)
    /\ \E s \in C5_Ids(last.value.lightning_stations) : s \notin C_Active(last.roster.cloud)

----------------------------------------------------------------------------
(* Properties of the adaptive selector (SpecSelect) *)

C6_Raw(c, i) == WScale \div (Max2(c[i].distance_km, 1) * Max2(c[i].distance_km, 1))

RECURSIVE C6_RawUpTo(_, _)
C6_RawUpTo(c, i) == IF i = 0 THEN 0 ELSE C6_Raw(c, i) + C6_RawUpTo(c, i - 1)

\* candidate i's share of the weight of candidates 1..i is below 2 %
C6_MarginalBelow(c, i) == 50 * C6_Raw(c, i) < C6_RawUpTo(c, i)

\* C6: select_stations returns a prefix of the distance-sorted candidate list
\* holding the first min(2, n) candidates and then every candidate before the
\* first one at 0-based index >= 2 whose marginal normalized weight
\* raw / (selected raw weights + raw) is below 0.02; nothing after that one.
C6_SelectedPrefix ==
    pc = "done" =>
        LET c == inp.candidates
            n == Len(c)
            k == Len(out)
        IN  /\ k <= n
            /\ \A i \in 1..k : /\ out[i].station = c[i]
                               /\ out[i].raw_weight = C6_Raw(c, i)
            /\ k >= Min2(2, n)
            /\ \A i \in 3..k : ~C6_MarginalBelow(c, i)
            /\ k < n => (k >= 2 /\ C6_MarginalBelow(c, k + 1))

\* a four-candidate list whose third station sits exactly on the threshold
\* (kept) and whose fourth falls below it (dropped)
C6_Witness ==
    /\ pc = "done"
    /\ Len(inp.candidates) = 4
    /\ Len(out) = 3
    /\ 50 * C6_Raw(inp.candidates, 3) = C6_RawUpTo(inp.candidates, 3)

----------------------------------------------------------------------------
(* Properties of the aggregators (SpecAgg) *)

C7_DaysBefore == <<0, 31, 60, 91, 121, 152, 182, 213, 244, 274, 305, 335>>
C7_MonthLength == <<31, 29, 31, 30, 31, 30, 31, 31, 30, 31, 30, 31>>

C7_Years ==
    {inp.cloud_rows[i].date[1] : i \in 1..Len(inp.cloud_rows)}
        \cup {inp.weather_rows[i].date[1] : i \in 1..Len(inp.weather_rows)}

C7_YearOf(label) == CHOOSE y \in C7_Years : ToString(y) = label

----------------------------------------------------------------------------
(* Properties of a single point (SpecPoint) *)

C8_NoWeather ==
    \/ ~inp.has_lightning_data
    \/ IsNone(inp.lightning_bucket)
    \/ Val(inp.lightning_bucket).total = 0

\* C8: cloud_coverage_avg is null exactly when obs_count = 0; when
\* has_lightning_data is false or the bucket's present-weather total is 0,
\* lightning_probability, lightning_lower and lightning_upper are all null.
C8_NullFields ==
    pc = "done" =>
        /\ IsNone(out.cloud_coverage_avg) <=> out.obs_count = 0
        /\ C8_NoWeather =>
              /\ IsNone(out.lightning_probability)
              /\ IsNone(out.lightning_lower)
              /\ IsNone(out.lightning_upper)

\* the flag is false although the bucket holds enough lightning observations
\* for a probability and an interval, and there is no cloud observation
C8_Witness ==
    /\ pc = "done"
    /\ ~inp.has_lightning_data
    /\ ~IsNone(inp.lightning_bucket)
    /\ Val(inp.lightning_bucket).total >= 30
    /\ Val(inp.lightning_bucket).lightning > 0
    /\ out.obs_count = 0
    /\ IsNone(out.lightning_probability)

C9_Total == Val(inp.lightning_bucket).total

\* C9: with has_lightning true and a bucket total n, 1 <= n < 30 gives a
\* non-null lightning_probability and null lightning_lower and
\* lightning_upper; n >= 30 gives non-null lightning_lower and lightning_upper.
C9_IntervalThreshold ==
    (pc = "done" /\ inp.has_lightning_data /\ ~IsNone(inp.lightning_bucket)) =>
        /\ (1 <= C9_Total /\ C9_Total < 30) =>
              /\ ~IsNone(out.lightning_probability)
              /\ IsNone(out.lightning_lower)
              /\ IsNone(out.lightning_upper)
        /\ C9_Total >= 30 =>
              /\ ~IsNone(out.lightning_lower)
              /\ ~IsNone(out.lightning_upper)

\* a bucket of exactly 30 observations carries an interval
C9_Witness ==
    /\ pc = "done"
    /\ inp.has_lightning_data
    /\ ~IsNone(inp.lightning_bucket)
    /\ Val(inp.lightning_bucket).total = 30
    /\ ~IsNone(out.lightning_lower)
    /\ ~IsNone(out.lightning_upper)

\* C10: for a bucket with total >= 30 and 0 <= hits <= total the emitted
\* values satisfy 0 <= lightning_lower <= lightning_probability
\* <= lightning_upper <= 100 (hundredths of a percent: 0..10000).
C10_IntervalBrackets ==
    (/\ pc = "done"
     /\ inp.has_lightning_data
     /\ ~IsNone(inp.lightning_bucket)
     /\ Val(inp.lightning_bucket).total >= 30) =>
        /\ ~IsNone(out.lightning_lower)
        /\ ~IsNone(out.lightning_probability)
        /\ ~IsNone(out.lightning_upper)
        /\ 0 <= Val(out.lightning_lower)
        /\ Val(out.lightning_lower) <= Val(out.lightning_probability)
        /\ Val(out.lightning_probability) <= Val(out.lightning_upper)
        /\ Val(out.lightning_upper) <= 10000

\* one hit in 31 observations: 3.23 % lies strictly inside its interval
C10_Witness ==
    /\ pc = "done"
    /\ inp.has_lightning_data
    /\ ~IsNone(inp.lightning_bucket)
    /\ Val(inp.lightning_bucket).total = 31
    /\ Val(inp.lightning_bucket).lightning = 1
    /\ 0 < Val(out.lightning_lower)
    /\ Val(out.lightning_lower) < Val(out.lightning_probability)
    /\ Val(out.lightning_probability) < Val(out.lightning_upper)

----------------------------------------------------------------------------
(* Properties of the report card (SpecQuality).  inp and out are the       *)
(* arguments and the result of the most recent compute_quality call.       *)

C_WorstLevel(a, b) == IF LevelOrder(a) <= LevelOrder(b) THEN a ELSE b

\* the grade of a returned dimension: the worse of its two factor levels
C_DimensionLevel(dim) ==
    C_WorstLevel(dim.station_coverage.level, dim.historical_data.level)

C_OverallOf(level) ==
    CASE level = "poor" -> "low" [] level = "fair" -> "medium" [] level = "good" -> "high"

\* C11: the overall level is the worst dimension grade (each the worse of its
\* station-coverage and historical-data levels) mapped poor/fair/good to
\* low/medium/high; without lightning stations the lightning dimension is
\* returned as poor but counts as fair, so the overall level is never high
\* and is low exactly when the cloud dimension is poor.
C11_OverallGrading ==
    pc = "done" =>
        IF inp.lightning_station_data # <<>>
        THEN out.level = C_OverallOf(C_WorstLevel(C_DimensionLevel(out.cloud),
                                                  C_DimensionLevel(out.lightning)))
        ELSE /\ out.lightning.station_coverage.level = "poor"
             /\ out.lightning.historical_data.level = "poor"
             /\ out.level = C_OverallOf(C_WorstLevel(C_DimensionLevel(out.cloud), "fair"))
             /\ out.level # "high"
             /\ (out.level = "low") <=> (C_DimensionLevel(out.cloud) = "poor")

\* a call without lightning stations whose cloud dimension is good: medium
C11_Witness ==
    /\ pc = "done"
    /\ inp.lightning_station_data = <<>>
    /\ inp.cloud_station_data # <<>>
    /\ C_DimensionLevel(out.cloud) = "good"
    /\ out.level = "medium"

\* the largest normalized weight of a station list, in hundredths
C_MaxWeight(sd) ==
    CHOOSE m \in {sd[i].weight.num : i \in 1..Len(sd)} :
        \A i \in 1..Len(sd) : m >= sd[i].weight.num

\* the proximity level: weighted mean distance up to 25 km good, up to 75 km fair
C_Proximity(sd) ==
    LET avg100 == SumSeq([i \in 1..Len(sd) |-> sd[i].station.distance_km * sd[i].weight.num])
    IN  IF avg100 <= 250 * 100 THEN "good" ELSE IF avg100 <= 750 * 100 THEN "fair" ELSE "poor"

\* the raw directional grade: spread of at least 180 degrees good, 90 fair
C_Direction(sd, target) ==
    LET spread == angular_spread([i \in 1..Len(sd) |-> bearing(target, sd[i].station.id)])
    IN  IF spread >= 180 THEN "good" ELSE IF spread >= 90 THEN "fair" ELSE "poor"

C_Promoted(level) == IF level = "poor" THEN "fair" ELSE "good"

\* the station_coverage level the dominant-station rule asks for
C_CoverageLevel(sd, target) ==
    IF C_MaxWeight(sd) >= 85 THEN C_Proximity(sd)
    ELSE IF C_MaxWeight(sd) >= 60
    THEN C_WorstLevel(C_Proximity(sd), C_Promoted(C_Direction(sd, target)))
    ELSE C_WorstLevel(C_Proximity(sd), C_Direction(sd, target))

\* C12: with m the largest normalized weight of a dimension's stations, the
\* station_coverage level is the proximity level when m >= 0.85, the worse of
\* proximity and the directional grade promoted by exactly one level (capped
\* at good) when 0.60 <= m < 0.85, and the worse of proximity and the raw
\* directional grade when m < 0.60.
C12_DominantStation ==
    pc = "done" =>
        /\ inp.cloud_station_data # <<>> =>
                out.cloud.station_coverage.level =
                    C_CoverageLevel(inp.cloud_station_data, inp.target)
        /\ inp.lightning_station_data # <<>> =>
                out.lightning.station_coverage.level =
                    C_CoverageLevel(inp.lightning_station_data, inp.target)

\* two nearby stations in the same direction, the larger weight 0.84: the
\* poor directional grade is promoted to fair, not to good
C12_Witness ==
    /\ pc = "done"
    /\ inp.cloud_station_data # <<>>
    /\ C_MaxWeight(inp.cloud_station_data) = 84
    /\ C_Proximity(inp.cloud_station_data) = "good"
    /\ C_Direction(inp.cloud_station_data, inp.target) = "poor"
    /\ out.cloud.station_coverage.level = "fair"

\* C13: compute_quality is a pure function: after any sequence of earlier
\* calls a call returns what a call with those arguments returns in a fresh
\* process (so two calls with equal arguments agree), and no call changes
\* what _EMPTY_DIM and EMPTY_QUALITY show.
C13_Pure ==
    /\ empty_dim = EmptyDimInitial
    /\ pc = "done" => out = QualityOf(EmptyDimInitial, inp).value

----------------------------------------------------------------------------
(* Properties of the engine (Spec), continued.  The quality blocks that    *)
(* location requests at different resolutions would return are compared    *)
(* by answering each of them from the present state.                       *)

\* the quality block of a location request made now
C_QualityNow(roster, resolution) ==
    get_location_weather(World, "Q1", roster, resolution).value.quality

C_Raises(s, r) ==
    /\ ~C_Young(FileAge(result_cache[<<s, r>>]))
    /\ \E p \in Params :
        /\ ~C_Young(FileAge(csv_cache[<<p, s>>]))
        /\ upstream[<<p, s>>] = "conn_error"

C_NoStationRaises(roster) ==
    \A s \in C_Active(roster.cloud) \cup C_Active(roster.weather) :
        \A r \in Resolutions : ~C_Raises(s, r)

----------------------------------------------------------------------------
(* Properties of the pre-loader (SpecPreload, FairSpecPreload) *)

\* the state changes the pre-warmer may make
C_StateChanges ==
    {<<"idle", "starting">>, <<"starting", "downloading">>,
     <<"downloading", "aggregating">>, <<"aggregating", "ready">>,
     <<"starting", "error">>, <<"downloading", "error">>, <<"aggregating", "error">>}

\* C15: the state field changes only along idle -> starting -> downloading
\* -> aggregating -> ready, or from a state after idle to error: never
\* backwards, never to ready except from aggregating reached from
\* downloading, and never out of ready or error.
C15_StateMachine ==
    [][status'.state # status.state => <<status.state, status'.state>> \in C_StateChanges]_vars

\* the pre-warmer has gone all the way to ready
C15_Witness ==
    /\ status.state = "ready"
    /\ thread.downloads > 0
    /\ thread.aggregations > 0

\* C16: however many start_preload calls are made, one after another or at
\* once, at most one pre-loader thread is started; a thread is started only
\* by a call that found state = idle, and a call that finds any other state
\* returns without changing any status field.
C16_SingleThread ==
    [][/\ thread'.spawned <= 1
       /\ thread'.spawned > thread.spawned =>
              \E c \in Callers : thread.callers[c] = "spawning"
       /\ \A c \in Callers :
              (thread.callers[c] = "calling" /\ thread'.callers[c] # "calling") =>
                  IF status.state = "idle"
                  THEN thread'.callers[c] = "spawning"
                  ELSE /\ status' = status
                       /\ thread'.callers[c] = "returned"
                       /\ thread'.spawned = thread.spawned]_vars

\* every caller has returned, one thread was started and has run to the end
C16_Witness ==
    /\ \A c \in Callers : thread.callers[c] = "returned"
    /\ thread.spawned = 1
    /\ thread.pc = "ended"
    /\ status.state = "ready"

\* C17: once the roster fetch has succeeded, whichever CSV downloads and
\* aggregations fail, the pre-warmer never enters error and eventually is
\* ready with agg_done = total_stations (every fetch and every aggregation
\* returning or raising, every thread being scheduled).
C17_ReachesReady ==
    /\ [](thread.fetched = "ok" => status.state # "error")
    /\ (thread.fetched = "ok") ~>
           (status.state = "ready" /\ status.agg_done = status.total_stations)

\* ready although a download and the aggregations of the station failed
C17_Witness ==
    /\ thread.fetched = "ok"
    /\ thread.warnings >= 2
    /\ thread.downloads = 2
    /\ thread.aggregations = 3
    /\ status.state = "ready"
    /\ status.total_stations = 1
    /\ status.agg_done = 1

\* C18: when the roster fetch raises, no CSV is downloaded and no station is
\* aggregated, the exception is caught inside the thread, and the thread ends
\* with state = error and the error text recorded.  Until a later request
\* fills them, both caches are as empty as the thread found them.
C18_RosterFailure ==
    thread.fetched = "raised" =>
        /\ thread.downloads = 0
        /\ thread.aggregations = 0
        /\ last.op = "none" => \A k \in Keys : IsNone(csv_cache[k])
        /\ last.op = "none" => \A k \in StationIds \X Resolutions : IsNone(result_cache[k])
        /\ thread.pc \in {"set_error", "set_error_text", "ended"}
        /\ thread.pc # "set_error" => status.state = "error"
        /\ thread.pc = "ended" => ~IsNone(status.error)

\* the thread has ended after a failed roster fetch
C18_Witness ==
    /\ thread.fetched = "raised"
    /\ thread.pc = "ended"
    /\ status.state = "error"
    /\ ~IsNone(status.error)
    /\ last.op = "none"

\* C19: once the pre-loader is ready with no download and no aggregation
\* having failed, a location request within CACHE_MAX_AGE_SECONDS of its end
\* issues no upstream CSV request.
C19_ServedFromCache ==
    (/\ last.op = "location"
     /\ status.state = "ready"
     /\ ~IsNone(status.finished_at)
     /\ thread.warnings = 0
     /\ last.at - Val(status.finished_at) < CACHE_MAX_AGE_SECONDS)
        => \A k \in Keys : last.requests[k] = 0

\* whether a cache file existed and was younger than 7 days when the last
\* fetch_station_csv call started
C_Younger ==
    /\ ~IsNone(last.file_before)
    /\ last.at - Val(last.file_before).mtime < 7 * 24 * 60 * 60

\* C20: fetch_station_csv(p, s) sends a request exactly when no cache file
\* for (p, s) younger than 7 days exists.  With such a file it returns the
\* file's text and leaves the file alone; otherwise a successful download
\* replaces the file with the downloaded text and returns that text, and a
\* failed download raises, returns nothing and leaves the file as it was.
C20_FetchStationCsv ==
    last.op = "csv" =>
        /\ last.requests[last.key] = (IF C_Younger THEN 0 ELSE 1)
        /\ \A j \in Keys \ {last.key} : last.requests[j] = 0
        /\ last.others_untouched
        /\ C_Younger =>
              /\ last.status = "ok"
              /\ last.text = Val(last.file_before).text
              /\ csv_cache[last.key] = last.file_before
        /\ (~C_Younger /\ last.upstream = "ok") =>
              /\ last.status = "ok"
              /\ last.text = UpstreamCsv(last.key[1], last.key[2])
              /\ csv_cache[last.key] =
                    Some([mtime |-> last.at, text |-> UpstreamCsv(last.key[1], last.key[2])])
        /\ (~C_Younger /\ last.upstream # "ok") =>
              /\ last.status \in {"http_error", "conn_error"}
              /\ last.text = <<>>
              /\ csv_cache[last.key] = last.file_before

\* a download failed while a file exactly 7 days old was in the cache
C20_Witness ==
    /\ last.op = "csv"
    /\ ~IsNone(last.file_before)
    /\ last.at - Val(last.file_before).mtime = 7 * 24 * 60 * 60
    /\ last.upstream # "ok"
    /\ last.status # "ok"
    /\ csv_cache[last.key] = last.file_before

\* C21: within one get_location_weather call the CSV of a (parameter,
\* station) pair is requested upstream at most once, also when the request
\* fails.
C21_AtMostOneRequest ==
    last.op = "location" => \A k \in Keys : last.requests[k] <= 1

\* the prefetch tasks of the request thread that are in the given position
C_TasksAt(position) ==
    {k \in 1..Len(thread.tasks) : thread.tasks[k].pc = position}

\* C22: during step 3 of get_location_weather at most 3 CSV fetches are in
\* flight, no station is aggregated before every prefetch task has finished,
\* and a prefetch task whose fetch fails does not end the request: the
\* request thread is still waiting for the pool or has returned a result.
C22_BoundedPrefetch ==
    /\ Cardinality(C_TasksAt("running")) <= 3
    /\ (\E k \in 1..Len(thread.tasks) : thread.tasks[k].pc # "finished") =>
            /\ thread.pc = "prefetch"
            /\ last.op = "none"
            /\ \A k \in DOMAIN result_cache : IsNone(result_cache[k])
    /\ thread.failed > 0 => thread.pc \in {"prefetch", "returned"}
    /\ thread.pc = "returned" =>
            /\ last.op = "location"
            /\ last.failed = thread.failed
            /\ C_TasksAt("finished") = 1..Len(thread.tasks)

\* three fetches are in flight while another task waits for a worker, and
\* an earlier fetch of the same request has failed
C22_Witness ==
    /\ thread.pc = "prefetch"
    /\ Cardinality(C_TasksAt("running")) = 3
    /\ C_TasksAt("queued") # {}
    /\ thread.failed > 0

\* thread t is blocked: it is about to acquire a mutex that a thread holds
C_Blocked(t) ==
    /\ thread[t].steps # <<>>
    /\ NextStep(t).kind = "acquire"
    /\ \E u \in LockThreads : NextStep(t).lock \in Held(u)

\* C23: no thread holds two of the three mutexes or acquires one while
\* holding another (or the same one again), no upstream request or disk
\* access happens with a mutex held, and no deadlock is reachable: whenever
\* a thread waits for a mutex, the thread holding it is not itself waiting.
C23_LeafLocks ==
    \A t \in LockThreads :
        /\ Cardinality(Held(t)) <= 1
        /\ (thread[t].steps # <<>> /\ NextStep(t).kind = "acquire") => Held(t) = {}
        /\ (thread[t].steps # <<>> /\ NextStep(t).kind = "io") => Held(t) = {}
        /\ C_Blocked(t) =>
              \A u \in LockThreads : NextStep(t).lock \in Held(u) => ~C_Blocked(u)

\* a request thread waits for the station-list mutex that the pre-loader
\* holds while another thread is in the middle of its upstream request
C23_Witness ==
    /\ C_Blocked("request1")
    /\ "station_list" \in Held("preloader")
    /\ thread["request2"].steps # <<>>
    /\ NextStep("request2").kind = "io"

\* the documents the writers have computed and started to write
C_WrittenDocuments ==
    {thread[w].result : w \in {w \in Writers : thread[w].pc \in {"write", "returned"}}}

\* C24: with two threads running get_station_weather_data for the same
\* (station, resolution), every read_result_cache returns null or a complete
\* result that a writer wrote, never raises on a partial file, and once both
\* writers have returned the file holds one writer's complete document.
C24_AtomicReplace ==
    /\ last.op = "read" =>
          \/ last.kind = "null"
          \/ last.kind = "document" /\ last.value \in C_WrittenDocuments
    /\ \A w \in Writers : thread[w].pc # "raised"
    /\ (\A w \in Writers : thread[w].pc = "returned") =>
          /\ read_result_file(result_cache[ResultFileKey]).kind = "document"
          /\ read_result_file(result_cache[ResultFileKey]).value \in C_WrittenDocuments

\* the keys of a parsed-row cache
C_KeysOf(cache) == {cache[i].key : i \in 1..Len(cache)}

\* the entries of the last store's dict that are gone after it
C_Evicted ==
    {i \in 1..Len(last.before) : last.before[i].key \notin C_KeysOf(parsed_csv_cache)}

\* C25: the parsed-row cache never holds more than 30 entries; a store of a
\* key that is not cached into a cache of 30 evicts exactly one entry, one
\* with the oldest timestamp; a store of a cached key, and a store into a
\* cache of fewer than 30, evict nothing; the stored key is cached afterwards.
C25_ParsedCacheCap ==
    /\ Len(parsed_csv_cache) <= 30
    /\ Cardinality(C_KeysOf(parsed_csv_cache)) = Len(parsed_csv_cache)
    /\ last.op = "store" =>
          /\ last.key \in C_KeysOf(parsed_csv_cache)
          /\ IF Len(last.before) = 30 /\ last.key \notin C_KeysOf(last.before)
             THEN /\ Cardinality(C_Evicted) = 1
                  /\ \A i \in C_Evicted : \A j \in 1..Len(last.before) :
                        last.before[i].ts <= last.before[j].ts
             ELSE C_Evicted = {}

\* a store of a key that was already cached into a full cache, after an
\* earlier store had evicted the stale entry
C25_Witness ==
    /\ last.op = "store"
    /\ Len(last.before) = 30
    /\ last.key \in C_KeysOf(last.before)
    /\ ParsedCacheInitial[3].key \notin C_KeysOf(parsed_csv_cache)
    /\ Len(parsed_csv_cache) = 30

----------------------------------------------------------------------------
(* Properties of compute_quality (SpecQuality), continued.  Scores are in  *)
(* tenths of a percent.                                                    *)

\* the proximity score: 100 at distance 0, falling to 0 at 200 km
C_ProximityScore(sd) ==
    LET avg100 == SumSeq([i \in 1..Len(sd) |-> sd[i].station.distance_km * sd[i].weight.num])
    IN  RoundHalfEven(200000 - Min2(avg100, 200000), 200)

\* the directional score: the angular spread as a share of the full circle
C_DirectionScore(sd, target) ==
    RoundHalfEven(
        1000 * Min2(angular_spread([i \in 1..Len(sd) |-> bearing(target, sd[i].station.id)]),
                    360),
        360)

\* v is the mean of a and b, to one decimal place
C_IsMean(v, a, b) == 2 * v - (a + b) \in {-1, 0, 1}

\* the dominant-station override fired: the largest weight is at least
\* 0.85, or it is at least 0.60 and the directional grade was promoted
C_OverrideFired(sd, target) ==
    \/ C_MaxWeight(sd) >= 85
    \/ C_MaxWeight(sd) >= 60 /\ C_Direction(sd, target) # "good"

\* the override lifted the directional grade to good from a lower grade
C_LiftedToGood(sd, target) ==
    \/ C_MaxWeight(sd) >= 85 /\ C_Direction(sd, target) # "good"
    \/ C_MaxWeight(sd) >= 60 /\ C_Direction(sd, target) = "fair"

C_ValueAsClaimed(v, sd, target) ==
    IF C_OverrideFired(sd, target) THEN v = C_ProximityScore(sd)
    ELSE C_IsMean(v, C_ProximityScore(sd), C_DirectionScore(sd, target))

C_ValueAsAmended(v, sd, target) ==
    IF C_LiftedToGood(sd, target) THEN v = C_ProximityScore(sd)
    ELSE C_IsMean(v, C_ProximityScore(sd), C_DirectionScore(sd, target))

\* C26 as claimed: the station_coverage value of a dimension is the
\* proximity score whenever the dominant-station override fired, and the
\* mean of the proximity score and the directional score otherwise.
C26_ProximityWhenOverrideFired ==
    pc = "done" =>
        /\ inp.cloud_station_data # <<>> =>
              C_ValueAsClaimed(out.cloud.station_coverage.value,
                               inp.cloud_station_data, inp.target)
        /\ inp.lightning_station_data # <<>> =>
              C_ValueAsClaimed(out.lightning.station_coverage.value,
                               inp.lightning_station_data, inp.target)

\* C26 as amended: the station_coverage value is the proximity score exactly
\* when the override lifted the directional grade to good from a lower grade
\* (largest weight at least 0.85 with a raw grade of fair or poor, or at
\* least 0.60 with a raw grade of fair), and otherwise the mean of the
\* proximity score and the directional score, rounded to one decimal place.
C26_ProximityWhenLiftedToGood ==
    pc = "done" =>
        /\ inp.cloud_station_data # <<>> =>
              C_ValueAsAmended(out.cloud.station_coverage.value,
                               inp.cloud_station_data, inp.target)
        /\ inp.lightning_station_data # <<>> =>
              C_ValueAsAmended(out.lightning.station_coverage.value,
                               inp.lightning_station_data, inp.target)

\* the largest weight is 0.84 and the poor directional grade was promoted to
\* fair only: the value is the mean, below the proximity score
C26_Witness ==
    /\ pc = "done"
    /\ inp.cloud_station_data # <<>>
    /\ C_MaxWeight(inp.cloud_station_data) = 84
    /\ C_Direction(inp.cloud_station_data, inp.target) = "poor"
    /\ out.cloud.station_coverage.value # C_ProximityScore(inp.cloud_station_data)
    /\ C_IsMean(out.cloud.station_coverage.value, C_ProximityScore(inp.cloud_station_data),
                C_DirectionScore(inp.cloud_station_data, inp.target))

----------------------------------------------------------------------------
(* Properties of the empty result of get_location_weather (Spec).          *)

\* C27: the quality record in the empty result of get_location_weather is
\* the same constant on every call, whatever was served before: level low,
\* and for both dimensions value 0, level poor and the summaries "No
\* station data available." and "No historical data available.".
C27_EmptyQualityConstant ==
    (last.op = "location" /\ last.path \in {"no_candidates", "no_cloud_data"})
    => last.value.quality = EMPTY_QUALITY(EmptyDimInitial)

----------------------------------------------------------------------------
(* SpecLightningYears: the lightning stations of a yearly request, from    *)
(* their raw rows to the historical-data factor of the lightning           *)
(* dimension.  Each station's rows are aggregated per year                 *)
(* (get_station_weather_data), the stations are blended                    *)
(* (_blend_yearly_lightning) and the blend is graded (_assess_dimension    *)
(* with obs_key = "lightning_obs_count").                                  *)

\* what _fetch_raw_observations returned for a lightning station: the cloud
\* rows are empty when the station has no cloud CSV
LightningStationInputs ==
    [cloud_rows : SeqsUpTo(CloudRowInputs, 1),
     weather_rows : SeqsUpTo(WeatherRowInputs, MaxRows)]

InitLightningYears ==
    /\ inp \in {[stations |-> st] :
                    st \in SeqsUpTo(LightningStationInputs, 2) \ {<<>>}}
    /\ out = <<>>
    /\ pc = "ready"
    /\ EngineIdle

\* step 4: _fetch_station_data(lightning_selected, "year"), and step 5 with
\* equal raw weights
FetchLightningData ==
    /\ pc = "ready"
    /\ out' = [lightning_data |->
                  [k \in 1..Len(inp.stations) |->
                      [weight |-> [num |-> 1, den |-> Len(inp.stations)],
                       data |-> [resolution |-> "year",
                                 has_lightning_data |->
                                     Len(inp.stations[k].weather_rows) > 0,
                                 points |-> aggregate_yearly(
                                     inp.stations[k].cloud_rows,
                                     inp.stations[k].weather_rows,
                                     Len(inp.stations[k].weather_rows) > 0)]]]]
    /\ pc' = "fetched"
    /\ UNCHANGED <<inp, engineVars>>

\* step 6: lightning_points = _blend_yearly_lightning(lightning_data)
BlendLightningYears ==
    /\ pc = "fetched"
    /\ out' = [lightning_data |-> out.lightning_data,
               lightning_points |-> blend_yearly_lightning(out.lightning_data)]
    /\ pc' = "blended"
    /\ UNCHANGED <<inp, engineVars>>

\* step 7: the historical_data factor of the lightning dimension
AssessLightningYears ==
    /\ pc = "blended"
    /\ out' = [lightning_data |-> out.lightning_data,
               lightning_points |-> out.lightning_points,
               historical_data |->
                   HistoricalFactor(out.lightning_points, "year", "lightning_obs_count")]
    /\ pc' = "done"
    /\ UNCHANGED <<inp, engineVars>>

NextLightningYears == FetchLightningData \/ BlendLightningYears \/ AssessLightningYears

SpecLightningYears == InitLightningYears /\ [][NextLightningYears]_vars

\* a contributing lightning station has present-weather rows in the year
C_WeatherObservedIn(label) ==
    \E k \in 1..Len(inp.stations) :
        LabelYear(label) \in YearsOf(inp.stations[k].weather_rows)

\* C28: a blended yearly lightning point counts as having observations
\* (lightning_obs_count > 0) exactly when at least one contributing
\* lightning station has present-weather observations in that year; a
\* lightning station with present-weather rows and no cloud rows yields
\* 100% lightning temporal coverage.
C28_LightningObservations ==
    /\ pc \in {"blended", "done"} =>
          \A i \in 1..Len(out.lightning_points) :
              ObsOf(out.lightning_points[i], "lightning_obs_count") > 0
                  <=> C_WeatherObservedIn(out.lightning_points[i].label)
    /\ (/\ pc = "done"
        /\ \A k \in 1..Len(inp.stations) :
              /\ inp.stations[k].cloud_rows = <<>>
              /\ inp.stations[k].weather_rows # <<>>)
       => out.historical_data.summary[1] = "every"

----------------------------------------------------------------------------
(* Properties of the pre-loader's status record (SpecPreload), continued.  *)
(* get_preload_status copies _status under _lock, and every write to       *)
(* _status is one _set call under the same lock: a snapshot is the value   *)
(* of status in some state.                                                *)

\* C29: every snapshot returned by get_preload_status while the pre-loader
\* runs is internally consistent: state = ready implies finished_at is set,
\* and state = error implies the error text is set.
C29_ConsistentSnapshot ==
    /\ status.state = "ready" => ~IsNone(status.finished_at)
    /\ status.state = "error" => ~IsNone(status.error)

\* C30: during the download phase, with the workers updating the progress
\* counter concurrently, the published csv_done never decreases, and when the
\* phase ends (state becomes aggregating) csv_done equals the number of
\* download tasks, 2 x total_stations.
C30_CsvDoneMonotone ==
    /\ [][status'.csv_done >= status.csv_done]_vars
    /\ [](status.state = "aggregating" => status.csv_done = 2 * status.total_stations)

====
